---------------------------- MODULE Spec2Model ----------------------------
(***************************************************************************)
(* The failure-triage pipeline of src/unnamed/part_002 (function main): a  *)
(* Node.js script that reads its inputs from the environment, lists the    *)
(* jobs of a workflow run, fetches the logs of the failed ones, asks a     *)
(* hosted model for a diagnosis and posts it as a comment.                 *)
(*                                                                         *)
(* Text is modelled as a sequence of characters (one-character strings),   *)
(* so that split, includes, slice, trim, parseInt and template             *)
(* interpolation are computed as the JavaScript computes them.  The state  *)
(* machine has one action per stretch of main between two awaits or two    *)
(* statements that the pipeline's stages separate.                         *)
(***************************************************************************)
EXTENDS Integers, Sequences, FiniteSets, TLC

(***************************************************************************)
(* String literals of part_002, character by character.                    *)
(***************************************************************************)
\* part_002:74,96  '\n## Job: '
JobHeader ==
    << "\n", "#", "#", " ", "J", "o", "b", ":", " " >>

\* part_002:74-98  '\n'
NL ==
    << "\n" >>

\* part_002:75,97  'Status: '
StatusLabel ==
    << "S", "t", "a", "t", "u", "s", ":", " " >>

\* part_002:76  'Started: '
StartedLabel ==
    << "S", "t", "a", "r", "t", "e", "d", ":", " " >>

\* part_002:77  'Completed: '
CompletedLabel ==
    << "C", "o", "m", "p", "l", "e", "t", "e", "d", ":", " " >>

\* part_002:91  '\nKey error messages:\n'
KeyErrorsLabel ==
    << "\n", "K", "e", "y", " ", "e", "r", "r", "o", "r", " ", "m", "e", "s",
       "s", "a", "g", "e", "s", ":", "\n" >>

\* part_002:98  'Error: Could not fetch detailed logs\n'
NoLogsLine ==
    << "E", "r", "r", "o", "r", ":", " ", "C", "o", "u", "l", "d", " ", "n",
       "o", "t", " ", "f", "e", "t", "c", "h", " ", "d", "e", "t", "a", "i",
       "l", "e", "d", " ", "l", "o", "g", "s", "\n" >>

\* part_002:83  'Error'
PatError ==
    << "E", "r", "r", "o", "r" >>

\* part_002:84  'FAILED'
PatFAILED ==
    << "F", "A", "I", "L", "E", "D" >>

\* part_002:85  'error:'
PatErrorColon ==
    << "e", "r", "r", "o", "r", ":" >>

\* part_002:86  'ERROR'
PatERROR ==
    << "E", "R", "R", "O", "R" >>

\* part_002:87  'FAILURE'
PatFAILURE ==
    << "F", "A", "I", "L", "U", "R", "E" >>

\* part_002:54  'failure'
StrFailure ==
    << "f", "a", "i", "l", "u", "r", "e" >>

\* part_002:169  'null'
StrNull ==
    << "n", "u", "l", "l" >>

\* part_002:37,125  '/'
Slash ==
    << "/" >>

\* part_002:120-123  'You are a senior software engineer helping debug failed G...'
PromptHead ==
    << "Y", "o", "u", " ", "a", "r", "e", " ", "a", " ", "s", "e", "n", "i",
       "o", "r", " ", "s", "o", "f", "t", "w", "a", "r", "e", " ", "e", "n",
       "g", "i", "n", "e", "e", "r", " ", "h", "e", "l", "p", "i", "n", "g",
       " ", "d", "e", "b", "u", "g", " ", "f", "a", "i", "l", "e", "d", " ",
       "G", "i", "t", "H", "u", "b", " ", "A", "c", "t", "i", "o", "n", "s",
       ".", " ", "A", "n", "a", "l", "y", "z", "e", " ", "t", "h", "e", " ",
       "f", "o", "l", "l", "o", "w", "i", "n", "g", " ", "w", "o", "r", "k",
       "f", "l", "o", "w", " ", "f", "a", "i", "l", "u", "r", "e", " ", "a",
       "n", "d", " ", "p", "r", "o", "v", "i", "d", "e", " ", "h", "e", "l",
       "p", "f", "u", "l", " ", "i", "n", "s", "i", "g", "h", "t", "s", ".",
       "\n", "\n", "*", "*", "W", "o", "r", "k", "f", "l", "o", "w", " ",
       "I", "n", "f", "o", "r", "m", "a", "t", "i", "o", "n", ":", "*", "*",
       "\n", "-", " ", "N", "a", "m", "e", ":", " " >>

\* part_002:123-124  '\n- Run ID: '
PromptRunId ==
    << "\n", "-", " ", "R", "u", "n", " ", "I", "D", ":", " " >>

\* part_002:124-125  '\n- Repository: '
PromptRepo ==
    << "\n", "-", " ", "R", "e", "p", "o", "s", "i", "t", "o", "r", "y", ":",
       " " >>

\* part_002:125-128  '\n\n**Failure Details:**\n'
PromptDetails ==
    << "\n", "\n", "*", "*", "F", "a", "i", "l", "u", "r", "e", " ", "D",
       "e", "t", "a", "i", "l", "s", ":", "*", "*", "\n" >>

\* part_002:128-137  '\n\n**Instructions:**\n1. Identify the root cause of the ...'
PromptTail ==
    << "\n", "\n", "*", "*", "I", "n", "s", "t", "r", "u", "c", "t", "i",
       "o", "n", "s", ":", "*", "*", "\n", "1", ".", " ", "I", "d", "e", "n",
       "t", "i", "f", "y", " ", "t", "h", "e", " ", "r", "o", "o", "t", " ",
       "c", "a", "u", "s", "e", " ", "o", "f", " ", "t", "h", "e", " ", "f",
       "a", "i", "l", "u", "r", "e", "\n", "2", ".", " ", "P", "r", "o", "v",
       "i", "d", "e", " ", "s", "p", "e", "c", "i", "f", "i", "c", ",", " ",
       "a", "c", "t", "i", "o", "n", "a", "b", "l", "e", " ", "s", "t", "e",
       "p", "s", " ", "t", "o", " ", "f", "i", "x", " ", "t", "h", "e", " ",
       "i", "s", "s", "u", "e", "\n", "3", ".", " ", "S", "u", "g", "g", "e",
       "s", "t", " ", "p", "r", "e", "v", "e", "n", "t", "i", "v", "e", " ",
       "m", "e", "a", "s", "u", "r", "e", "s", " ", "i", "f", " ", "a", "p",
       "p", "l", "i", "c", "a", "b", "l", "e", "\n", "4", ".", " ", "K", "e",
       "e", "p", " ", "y", "o", "u", "r", " ", "r", "e", "s", "p", "o", "n",
       "s", "e", " ", "c", "o", "n", "c", "i", "s", "e", " ", "b", "u", "t",
       " ", "h", "e", "l", "p", "f", "u", "l", "\n", "5", ".", " ", "F", "o",
       "r", "m", "a", "t", " ", "y", "o", "u", "r", " ", "r", "e", "s", "p",
       "o", "n", "s", "e", " ", "i", "n", " ", "m", "a", "r", "k", "d", "o",
       "w", "n", " ", "f", "o", "r", " ", "G", "i", "t", "H", "u", "b", " ",
       "c", "o", "m", "m", "e", "n", "t", "s", "\n", "\n", "P", "l", "e",
       "a", "s", "e", " ", "p", "r", "o", "v", "i", "d", "e", " ", "y", "o",
       "u", "r", " ", "a", "n", "a", "l", "y", "s", "i", "s", ":" >>

\* part_002:162-164  '## 🤖 Automated Failure Analysis\n\n'
CommentHead ==
    << "#", "#", " ", "U+1F916", " ", "A", "u", "t", "o", "m", "a", "t", "e",
       "d", " ", "F", "a", "i", "l", "u", "r", "e", " ", "A", "n", "a", "l",
       "y", "s", "i", "s", "\n", "\n" >>

\* part_002:164-167  '\n\n---\n*This analysis was generated automatically by Cl...'
CommentMid ==
    << "\n", "\n", "-", "-", "-", "\n", "*", "T", "h", "i", "s", " ", "a",
       "n", "a", "l", "y", "s", "i", "s", " ", "w", "a", "s", " ", "g", "e",
       "n", "e", "r", "a", "t", "e", "d", " ", "a", "u", "t", "o", "m", "a",
       "t", "i", "c", "a", "l", "l", "y", " ", "b", "y", " ", "C", "l", "a",
       "u", "d", "e", " ", "v", "i", "a", " ", "A", "W", "S", " ", "B", "e",
       "d", "r", "o", "c", "k", " ", "w", "h", "e", "n", " ", "t", "h", "e",
       " ", "\"" >>

\* part_002:167  '" workflow failed.*'
CommentTail ==
    << "\"", " ", "w", "o", "r", "k", "f", "l", "o", "w", " ", "f", "a", "i",
       "l", "e", "d", ".", "*" >>

\* part_002:template interpolation of an undefined value  'undefined'
StrUndefined ==
    << "u", "n", "d", "e", "f", "i", "n", "e", "d" >>

(***************************************************************************)
(* Values of the inputs the model draws from.                              *)
(***************************************************************************)
\* '555' : a WORKFLOW_RUN_ID
RunId555 ==
    << "5", "5", "5" >>

\* 'CI' : a WORKFLOW_NAME
NameCI ==
    << "C", "I" >>

\* 'abc123' : a HEAD_SHA
ShaAbc ==
    << "a", "b", "c", "1", "2", "3" >>

\* '42' : a PULL_REQUEST_NUMBER
Pr42 ==
    << "4", "2" >>

\* 'x1' : a PULL_REQUEST_NUMBER that is not a number
PrGarbage ==
    << "x", "1" >>

\* 'acme/app' : a GITHUB_REPOSITORY
RepoOR ==
    << "a", "c", "m", "e", "/", "a", "p", "p" >>

\* 'AKIA' : an AWS_ACCESS_KEY_ID
KeyId ==
    << "A", "K", "I", "A" >>

\* 's3cr' : an AWS_SECRET_ACCESS_KEY
Secret ==
    << "s", "3", "c", "r" >>

\* 'build' : a job name
JobBuild ==
    << "b", "u", "i", "l", "d" >>

\* 'test' : a job name
JobTest ==
    << "t", "e", "s", "t" >>

\* 'success' : a job conclusion
StrSuccess ==
    << "s", "u", "c", "c", "e", "s", "s" >>

\* 'cancelled' : a job conclusion
StrCancelled ==
    << "c", "a", "n", "c", "e", "l", "l", "e", "d" >>

\* 'T1' : a started_at timestamp
TimeA ==
    << "T", "1" >>

\* 'T2' : a completed_at timestamp
TimeB ==
    << "T", "2" >>

\* 'npm ci\nError: module not found\nbuild failed\nINFO: build error: disk full\n' : a job log with two salient lines
LogWithErrors ==
    << "n", "p", "m", " ", "c", "i", "\n", "E", "r", "r", "o", "r", ":", " ",
       "m", "o", "d", "u", "l", "e", " ", "n", "o", "t", " ", "f", "o", "u",
       "n", "d", "\n", "b", "u", "i", "l", "d", " ", "f", "a", "i", "l", "e",
       "d", "\n", "I", "N", "F", "O", ":", " ", "b", "u", "i", "l", "d", " ",
       "e", "r", "r", "o", "r", ":", " ", "d", "i", "s", "k", " ", "f", "u",
       "l", "l", "\n" >>

\* 'INFO: build complete\nfailed\n' : a job log without salient line
LogNoMatch ==
    << "I", "N", "F", "O", ":", " ", "b", "u", "i", "l", "d", " ", "c", "o",
       "m", "p", "l", "e", "t", "e", "\n", "f", "a", "i", "l", "e", "d",
       "\n" >>

\* '\n Fix the import.\n' : a generated diagnosis, with surrounding whitespace
AnswerText ==
    << "\n", " ", "F", "i", "x", " ", "t", "h", "e", " ", "i", "m", "p", "o",
       "r", "t", ".", "\n" >>

\* '' : an empty generated diagnosis
AnswerEmpty ==
    << >>

(***************************************************************************)
(* JavaScript values and the string functions main uses.                   *)
(***************************************************************************)

\* The value of an environment variable that is not set (process.env.X).
Undefined ==
    << "undefined" >>

\* JavaScript truthiness of a string-or-undefined value: undefined and the
\* empty string are falsy (part_002:22,27,80,169).
Truthy(v) ==
    v # Undefined /\ v # << >>

\* `${v}` in a template literal: an undefined value reads 'undefined'.
ToStr(v) ==
    IF v = Undefined THEN StrUndefined ELSE v

\* s.includes(p)
Includes(s, p) ==
    \E i \in 0..(Len(s) - Len(p)) : SubSeq(s, i + 1, i + Len(p)) = p

\* Index of the first occurrence of the character c in s, 0 when absent.
IndexOf(s, c) ==
    IF \E i \in 1..Len(s) : s[i] = c
    THEN CHOOSE i \in 1..Len(s) : s[i] = c /\ \A j \in 1..(i - 1) : s[j] # c
    ELSE 0

\* s.split(c) for a one-character separator: the pieces between the
\* separators, a trailing separator giving a last empty piece.
RECURSIVE Split(_, _)
Split(s, c) ==
    IF IndexOf(s, c) = 0
    THEN << s >>
    ELSE << SubSeq(s, 1, IndexOf(s, c) - 1) >>
         \o Split(SubSeq(s, IndexOf(s, c) + 1, Len(s)), c)

\* lines.join(sep)
RECURSIVE Join(_, _)
Join(lines, sep) ==
    IF Len(lines) = 0 THEN << >>
    ELSE IF Len(lines) = 1 THEN lines[1]
    ELSE lines[1] \o sep \o Join(Tail(lines), sep)

\* Number of salient lines kept per job: slice(-10), part_002:88.
KeepLast ==
    10

\* Mutant of SliceLast: slice(0, n), the first n elements.
SliceFirst(xs, n) ==
    IF Len(xs) <= n THEN xs ELSE SubSeq(xs, 1, n)

\* xs.slice(-n): the last n elements, all of them when there are fewer.
SliceLast(xs, n) ==
    IF Len(xs) <= n THEN xs ELSE SubSeq(xs, Len(xs) - n + 1, Len(xs))

\* Mutant of IsErrorLine: the third pattern has lost its colon.
IsErrorLineNoColon(line) ==
    \/ Includes(line, PatError)
    \/ Includes(line, PatFAILED)
    \/ Includes(line, << "e", "r", "r", "o", "r" >>)
    \/ Includes(line, PatERROR)
    \/ Includes(line, PatFAILURE)

\* The filter of part_002:82-87: five independent case-sensitive checks.
IsErrorLine(line) ==
    \/ Includes(line, PatError)
    \/ Includes(line, PatFAILED)
    \/ Includes(line, PatErrorColon)
    \/ Includes(line, PatERROR)
    \/ Includes(line, PatFAILURE)

\* logText.split('\n').filter(...).slice(-10), part_002:82-88.
ErrorLines(logText) ==
    SliceLast(SelectSeq(Split(logText, "\n"), IsErrorLine), KeepLast)

WhiteSpace ==
    { " ", "\n", "\t", "\r" }

\* s.trim()
RECURSIVE Trim(_)
Trim(s) ==
    IF Len(s) = 0 THEN s
    ELSE IF s[1] \in WhiteSpace THEN Trim(Tail(s))
    ELSE IF s[Len(s)] \in WhiteSpace THEN Trim(SubSeq(s, 1, Len(s) - 1))
    ELSE s

Digits ==
    << "0", "1", "2", "3", "4", "5", "6", "7", "8", "9" >>

IsDigit(c) ==
    \E d \in 1..Len(Digits) : Digits[d] = c

DigitValue(c) ==
    (CHOOSE d \in 1..Len(Digits) : Digits[d] = c) - 1

\* The value of the longest prefix of digits of s, read after acc.
RECURSIVE ReadDigits(_, _)
ReadDigits(s, acc) ==
    IF Len(s) = 0 \/ ~IsDigit(s[1]) THEN acc
    ELSE ReadDigits(Tail(s), ((acc * 10) + DigitValue(s[1])))

\* A JavaScript number that parseInt returns: NaN, or an integer.
NaN ==
    [nan |-> TRUE, value |-> 0]

Num(n) ==
    [nan |-> FALSE, value |-> n]

\* parseInt(s) of a string without sign: leading white space is skipped,
\* the leading digits are read, and no digit at all gives NaN.
RECURSIVE ParseInt(_)
ParseInt(s) ==
    IF Len(s) = 0 THEN NaN
    ELSE IF s[1] \in WhiteSpace THEN ParseInt(Tail(s))
    ELSE IF IsDigit(s[1]) THEN Num(ReadDigits(s, 0))
    ELSE NaN

(***************************************************************************)
(* Bounds and the inputs the environment can supply.                       *)
(***************************************************************************)

\* Longest job list a run answers with.
MaxJobs ==
    2

\* process.env as main reads it (part_002:8-22,37).  AWS_REGION,
\* AWS_SESSION_TOKEN and GITHUB_TOKEN only configure the clients.
Environments ==
    [ AWS_ACCESS_KEY_ID     : { Undefined, KeyId },
      AWS_SECRET_ACCESS_KEY : { Undefined, Secret },
      WORKFLOW_RUN_ID       : { Undefined, << >>, RunId555 },
      WORKFLOW_NAME         : { NameCI },
      HEAD_SHA              : { ShaAbc },
      PULL_REQUEST_NUMBER   : { Undefined, << >>, StrNull, Pr42, PrGarbage },
      GITHUB_REPOSITORY     : { Undefined, RepoOR } ]

JobKinds ==
    [ name : { JobBuild, JobTest },
      conclusion : { StrFailure, StrSuccess, StrCancelled } ]

\* jobs.data.jobs of a listJobsForWorkflowRun answer: the job ids are
\* distinct, here the position in the list.
JobLists ==
    UNION { { [ i \in 1..k |-> [ id           |-> i,
                                 name         |-> s[i].name,
                                 conclusion   |-> s[i].conclusion,
                                 started_at   |-> TimeA,
                                 completed_at |-> TimeB ] ]
              : s \in [ 1..k -> JobKinds ] }
            : k \in 0..MaxJobs }

\* logs.data of a downloadJobLogsForWorkflowRun answer.
LogData ==
    { Undefined, LogWithErrors, LogNoMatch }

\* The decoded body of an InvokeModel answer: text that is no JSON, JSON
\* without a content element, or JSON whose content[0].text is a string.
ResponseBodies ==
    { [ json |-> FALSE, content |-> << >> ],
      [ json |-> TRUE,  content |-> << >> ],
      [ json |-> TRUE,  content |-> << [ text |-> AnswerText ] >> ],
      [ json |-> TRUE,  content |-> << [ text |-> AnswerEmpty ] >> ] }

(***************************************************************************)
(* The state of one invocation of main.                                    *)
(***************************************************************************)
VARIABLES
    env,             \* process.env
    pc,              \* the position of main
    calls,           \* the external requests issued so far, with outcome
    jobs,            \* jobs.data.jobs
    failedJobs,      \* part_002:54
    idx,             \* the position of the for-of loop in failedJobs
    failureDetails,  \* part_002:64
    analysisPrompt,  \* part_002:120
    response,        \* << >>, then << the decoded body of the answer >>
    analysis,        \* part_002:157
    commentBody,     \* part_002:162
    exitStatus,      \* << >> while the process runs, then << code >>
    console,         \* the lines written by console.log / console.error
    finished         \* the earlier invocations of main: what each left behind

(***************************************************************************)
(* The other programs of the repository, each a record of its own state:   *)
(* they share nothing with the failure-triage pipeline or with each other. *)
(***************************************************************************)
VARIABLES
    issueHandler,       \* the process of part_001 (scripts/issue-handler.js)
    imageUpload,        \* the ImageUpload component and the requests it sent
    analyzeImageRoute,  \* one request to POST /api/analyze-image
    chatPage            \* the chat page (page.tsx) and the requests it sent

\* The variables of the failure-triage pipeline.
triage ==
    << env, pc, calls, jobs, failedJobs, idx, failureDetails, analysisPrompt,
       response, analysis, commentBody, exitStatus, console, finished >>

otherPrograms ==
    << issueHandler, imageUpload, analyzeImageRoute, chatPage >>

vars ==
    << env, pc, calls, jobs, failedJobs, idx, failureDetails, analysisPrompt,
       response, analysis, commentBody, exitStatus, console, finished,
       issueHandler, imageUpload, analyzeImageRoute, chatPage >>

\* A program that does not run in the specification at hand.
NotStarted ==
    [ pc |-> "not started" ]

OtherProgramsNotStarted ==
    /\ issueHandler = NotStarted
    /\ imageUpload = NotStarted
    /\ analyzeImageRoute = NotStarted
    /\ chatPage = NotStarted

\* An external request as issued; outcome is "pending" until the awaited
\* promise settles, then "ok" or "throw".  data is logs.data of the answer to
\* a log request (part_002:68,80), undefined for every other request.
Request(api) ==
    [ api          |-> api,
      owner        |-> << >>,
      repo         |-> << >>,
      run_id       |-> << >>,
      job_id       |-> 0,
      issue_number |-> NaN,
      commit_sha   |-> << >>,
      body         |-> << >>,
      modelId      |-> "",
      max_tokens   |-> 0,
      content      |-> << >>,
      outcome      |-> "pending",
      data         |-> Undefined ]

\* The requests whose promise has not settled yet.
Outstanding ==
    { k \in DOMAIN calls : calls[k].outcome = "pending" }

\* const [owner, repo] = process.env.GITHUB_REPOSITORY.split('/')
RepoParts(repository) ==
    Split(repository, "/")

Owner(repository) ==
    RepoParts(repository)[1]

Repo(repository) ==
    IF Len(RepoParts(repository)) >= 2 THEN RepoParts(repository)[2]
    ELSE Undefined

\* Mutant of EnvironmentCheck: the run id is only compared with undefined,
\* so that an empty one passes.
EnvironmentCheckUndefinedOnly(e) ==
    IF ~Truthy(e.AWS_ACCESS_KEY_ID) \/ ~Truthy(e.AWS_SECRET_ACCESS_KEY)
    THEN "no_credentials"
    ELSE IF e.WORKFLOW_RUN_ID = Undefined THEN "skip"
    ELSE IF e.GITHUB_REPOSITORY = Undefined THEN "throw"
    ELSE "proceed"

\* What the checks at the head of main decide (part_002:22-37), in the
\* order main makes them.
EnvironmentCheck(e) ==
    IF ~Truthy(e.AWS_ACCESS_KEY_ID) \/ ~Truthy(e.AWS_SECRET_ACCESS_KEY)
    THEN "no_credentials"
    ELSE IF ~Truthy(e.WORKFLOW_RUN_ID) THEN "skip"
    ELSE IF e.GITHUB_REPOSITORY = Undefined THEN "throw"
    ELSE "proceed"

\* Mutant of FailedJobsOf: the filter is missing.
FailedJobsOfAll(js) ==
    js

\* Mutant of FailedJobsOf: every job that did not succeed counts as failed.
FailedJobsOfNotSuccess(js) ==
    SelectSeq(js, LAMBDA job : job.conclusion # StrSuccess)

\* jobs.data.jobs.filter(job => job.conclusion === 'failure')
FailedJobsOf(js) ==
    SelectSeq(js, LAMBDA job : job.conclusion = StrFailure)

\* Mutant of JobSection: the block is written for every log that is not
\* empty, whether or not a line matched.
JobSectionAlwaysBlock(job, data) ==
    JobHeader \o ToStr(job.name) \o NL
    \o StatusLabel \o ToStr(job.conclusion) \o NL
    \o StartedLabel \o ToStr(job.started_at) \o NL
    \o CompletedLabel \o ToStr(job.completed_at) \o NL
    \o ( IF Truthy(data)
         THEN KeyErrorsLabel \o Join(ErrorLines(data), NL) \o NL
         ELSE << >> )

\* The section of a job whose logs were fetched (part_002:74-93).
JobSection(job, data) ==
    JobHeader \o ToStr(job.name) \o NL
    \o StatusLabel \o ToStr(job.conclusion) \o NL
    \o StartedLabel \o ToStr(job.started_at) \o NL
    \o CompletedLabel \o ToStr(job.completed_at) \o NL
    \o ( IF Truthy(data) /\ Len(ErrorLines(data)) > 0
         THEN KeyErrorsLabel \o Join(ErrorLines(data), NL) \o NL
         ELSE << >> )

\* Mutant of DegradedSection: the catch block writes the error line alone.
DegradedSectionNoHeader(job) ==
    NoLogsLine

\* The section of a job whose log fetch threw (part_002:96-98).
DegradedSection(job) ==
    JobHeader \o ToStr(job.name) \o NL
    \o StatusLabel \o ToStr(job.conclusion) \o NL
    \o NoLogsLine

\* Mutant of BuildPrompt: the details are cut to their first 80 characters.
BuildPromptTruncated(workflowName, workflowRunId, owner, repo, details) ==
    PromptHead \o ToStr(workflowName)
    \o PromptRunId \o ToStr(workflowRunId)
    \o PromptRepo \o ToStr(owner) \o Slash \o ToStr(repo)
    \o PromptDetails
    \o SubSeq(details, 1, IF Len(details) < 80 THEN Len(details) ELSE 80)
    \o PromptTail

\* The template of part_002:120-137.
BuildPrompt(workflowName, workflowRunId, owner, repo, details) ==
    PromptHead \o ToStr(workflowName)
    \o PromptRunId \o ToStr(workflowRunId)
    \o PromptRepo \o ToStr(owner) \o Slash \o ToStr(repo)
    \o PromptDetails \o details \o PromptTail

\* Mutant of ParseAnalysis: the text is taken as it came.
ParseAnalysisNoTrim(responseBody) ==
    IF ~responseBody.json \/ Len(responseBody.content) = 0
    THEN [ ok |-> FALSE, text |-> << >> ]
    ELSE [ ok |-> TRUE, text |-> responseBody.content[1].text ]

\* JSON.parse(...) then responseBody.content[0].text.trim() (part_002:156-157):
\* a SyntaxError when the body is no JSON, a TypeError when content[0] is
\* missing.
ParseAnalysis(responseBody) ==
    IF ~responseBody.json \/ Len(responseBody.content) = 0
    THEN [ ok |-> FALSE, text |-> << >> ]
    ELSE [ ok |-> TRUE, text |-> Trim(responseBody.content[1].text) ]

\* The template of part_002:162-167.
BuildComment(text, workflowName) ==
    CommentHead \o text \o CommentMid \o ToStr(workflowName) \o CommentTail

\* Mutant of CommentOnPullRequest: the sentinel 'null' is not recognised.
CommentOnPullRequestNoSentinel(pullRequestNumber) ==
    Truthy(pullRequestNumber)

\* The condition of part_002:169.
CommentOnPullRequest(pullRequestNumber) ==
    Truthy(pullRequestNumber) /\ pullRequestNumber # StrNull

(***************************************************************************)
(* main, one action per step.                                              *)
(***************************************************************************)
Init ==
    /\ env \in Environments
    /\ pc = "start"
    /\ calls = << >>
    /\ jobs = << >>
    /\ failedJobs = << >>
    /\ idx = 1
    /\ failureDetails = << >>
    /\ analysisPrompt = << >>
    /\ response = << >>
    /\ analysis = << >>
    /\ commentBody = << >>
    /\ exitStatus = << >>
    /\ console = << >>
    /\ finished = << >>
    /\ OtherProgramsNotStarted

\* Mutant of CatchAtTopLevel: the error is logged and main returns.
CatchWithoutExitCode(settled) ==
    /\ calls' = settled
    /\ console' = Append(console, "Error analyzing failed workflow:")
    /\ pc' = "END"
    /\ exitStatus' = << 0 >>

\* The catch block of part_002:189-192.
CatchAtTopLevel(settled) ==
    /\ calls' = settled
    /\ console' = Append(console, "Error analyzing failed workflow:")
    /\ pc' = "FAILED"
    /\ exitStatus' = << 1 >>

\* part_002:8-45: the environment is read and checked, and the first
\* request is issued.
CheckEnvironment ==
    /\ pc = "start"
    /\ \/ /\ EnvironmentCheck(env) = "no_credentials"
          /\ console' = console \o << "Environment check:",
                 "AWS credentials not found in environment variables" >>
          /\ pc' = "FAILED"
          /\ exitStatus' = << 1 >>
          /\ calls' = calls
       \/ /\ EnvironmentCheck(env) = "skip"
          /\ console' = console \o << "Environment check:",
                 "No workflow run ID found, skipping..." >>
          /\ pc' = "END"
          /\ exitStatus' = << 0 >>
          /\ calls' = calls
       \/ /\ EnvironmentCheck(env) = "throw"
          /\ console' = console \o << "Environment check:",
                 "Error analyzing failed workflow:" >>
          /\ pc' = "FAILED"
          /\ exitStatus' = << 1 >>
          /\ calls' = calls
       \/ /\ EnvironmentCheck(env) = "proceed"
          /\ console' = console \o << "Environment check:",
                 "Fetching workflow run details..." >>
          /\ calls' = Append(calls,
                 [ Request("getWorkflowRun") EXCEPT
                     !.owner = Owner(env.GITHUB_REPOSITORY),
                     !.repo = Repo(env.GITHUB_REPOSITORY),
                     !.run_id = env.WORKFLOW_RUN_ID ])
          /\ pc' = "getWorkflowRun"
          /\ exitStatus' = exitStatus
    /\ UNCHANGED << otherPrograms, finished, env, jobs, failedJobs, idx, failureDetails,
                    analysisPrompt, response, analysis, commentBody >>

\* calls with the outstanding request k settled.
Settled(k, outcome) ==
    [ calls EXCEPT ![k].outcome = outcome ]

\* part_002:41-51: getWorkflowRun settles; listJobsForWorkflowRun is issued.
GetWorkflowRunReturns ==
    /\ pc = "getWorkflowRun"
    /\ \E k \in Outstanding :
          /\ calls[k].api = "getWorkflowRun"
          /\ \/ /\ calls' = Append(Settled(k, "ok"),
                       [ Request("listJobsForWorkflowRun") EXCEPT
                           !.owner = Owner(env.GITHUB_REPOSITORY),
                           !.repo = Repo(env.GITHUB_REPOSITORY),
                           !.run_id = env.WORKFLOW_RUN_ID ])
                /\ pc' = "listJobsForWorkflowRun"
                /\ UNCHANGED << exitStatus, console >>
             \/ CatchAtTopLevel(Settled(k, "throw"))
    /\ UNCHANGED << otherPrograms, finished, env, jobs, failedJobs, idx, failureDetails,
                    analysisPrompt, response, analysis, commentBody >>

\* Mutant of ListJobsReturns: a listing that throws is caught on the spot
\* and main goes on with no jobs.
ListJobsReturnsCaughtLocally ==
    /\ pc = "listJobsForWorkflowRun"
    /\ \E k \in Outstanding :
          /\ calls[k].api = "listJobsForWorkflowRun"
          /\ \/ /\ \E js \in JobLists : jobs' = js
                /\ calls' = Settled(k, "ok")
                /\ console' = console
             \/ /\ calls' = Settled(k, "throw")
                /\ console' = Append(console, "Could not list jobs")
                /\ jobs' = jobs
    /\ pc' = "located"
    /\ UNCHANGED << otherPrograms, finished, env, failedJobs, idx, failureDetails, analysisPrompt,
                    response, analysis, commentBody, exitStatus >>

\* part_002:47-51: listJobsForWorkflowRun settles.
ListJobsReturns ==
    /\ pc = "listJobsForWorkflowRun"
    /\ \E k \in Outstanding :
          /\ calls[k].api = "listJobsForWorkflowRun"
          /\ \/ /\ \E js \in JobLists : jobs' = js
                /\ calls' = Settled(k, "ok")
                /\ pc' = "located"
                /\ UNCHANGED << exitStatus, console >>
             \/ /\ CatchAtTopLevel(Settled(k, "throw"))
                /\ jobs' = jobs
    /\ UNCHANGED << otherPrograms, finished, env, failedJobs, idx, failureDetails, analysisPrompt,
                    response, analysis, commentBody >>

\* Mutant of SelectFailedJobs: the return of part_002:58 is missing.
SelectFailedJobsNoReturn ==
    /\ pc = "located"
    /\ failedJobs' = FailedJobsOf(jobs)
    /\ IF Len(failedJobs') = 0
       THEN console' = console \o << "No failed jobs found",
                                     "Found failed job(s)" >>
       ELSE console' = Append(console, "Found failed job(s)")
    /\ pc' = "loop"
    /\ exitStatus' = exitStatus
    /\ idx' = 1
    /\ failureDetails' = << >>
    /\ UNCHANGED << otherPrograms, finished, env, calls, jobs, analysisPrompt, response, analysis,
                    commentBody >>

\* part_002:54-64: the failed jobs are selected; without any, main returns.
SelectFailedJobs ==
    /\ pc = "located"
    /\ failedJobs' = FailedJobsOf(jobs)
    /\ IF Len(failedJobs') = 0
       THEN /\ console' = Append(console, "No failed jobs found")
            /\ pc' = "END"
            /\ exitStatus' = << 0 >>
       ELSE /\ console' = Append(console, "Found failed job(s)")
            /\ pc' = "loop"
            /\ exitStatus' = exitStatus
    /\ idx' = 1
    /\ failureDetails' = << >>
    /\ UNCHANGED << otherPrograms, finished, env, calls, jobs, analysisPrompt, response, analysis,
                    commentBody >>

\* Mutant of RequestJobLogs: the logs of all failed jobs are requested at
\* once, without awaiting each.
RequestAllJobLogs ==
    /\ pc = "loop"
    /\ idx <= Len(failedJobs)
    /\ console' = Append(console, "Getting logs for job:")
    /\ calls' = calls \o
           [ i \in 1..(Len(failedJobs) - idx + 1) |->
               [ Request("downloadJobLogsForWorkflowRun") EXCEPT
                   !.owner = Owner(env.GITHUB_REPOSITORY),
                   !.repo = Repo(env.GITHUB_REPOSITORY),
                   !.job_id = failedJobs[idx + i - 1].id ] ]
    /\ pc' = "downloadJobLogsForWorkflowRun"
    /\ UNCHANGED << otherPrograms, finished, env, jobs, failedJobs, idx, failureDetails,
                    analysisPrompt, response, analysis, commentBody,
                    exitStatus >>

\* part_002:65-72: the next failed job's logs are requested.
RequestJobLogs ==
    /\ pc = "loop"
    /\ idx <= Len(failedJobs)
    /\ console' = Append(console, "Getting logs for job:")
    /\ calls' = Append(calls,
           [ Request("downloadJobLogsForWorkflowRun") EXCEPT
               !.owner = Owner(env.GITHUB_REPOSITORY),
               !.repo = Repo(env.GITHUB_REPOSITORY),
               !.job_id = failedJobs[idx].id ])
    /\ pc' = "downloadJobLogsForWorkflowRun"
    /\ UNCHANGED << otherPrograms, finished, env, jobs, failedJobs, idx, failureDetails,
                    analysisPrompt, response, analysis, commentBody, exitStatus >>

\* Mutant of ReceiveJobLogs: the section is put in front of the details.
ReceiveJobLogsPrepend(k, data) ==
    /\ failureDetails' = JobSection(failedJobs[idx], data) \o failureDetails
    /\ calls' = [ Settled(k, "ok") EXCEPT ![k].data = data ]
    /\ console' = console

\* part_002:68-93: the answer k to the log request carries data; the job's
\* section is appended to the details.
ReceiveJobLogs(k, data) ==
    /\ failureDetails' = failureDetails \o JobSection(failedJobs[idx], data)
    /\ calls' = [ Settled(k, "ok") EXCEPT ![k].data = data ]
    /\ console' = console

\* Mutant of JobLogsReturn: the try/catch around the log request is missing.
JobLogsReturnUncaught ==
    /\ pc = "downloadJobLogsForWorkflowRun"
    /\ \E k \in Outstanding :
          /\ calls[k].api = "downloadJobLogsForWorkflowRun"
          /\ \/ /\ \E data \in LogData : ReceiveJobLogs(k, data)
                /\ idx' = idx + 1
                /\ pc' = "loop"
                /\ UNCHANGED exitStatus
             \/ /\ CatchAtTopLevel(Settled(k, "throw"))
                /\ UNCHANGED << failureDetails, idx >>
    /\ UNCHANGED << otherPrograms, finished, env, jobs, failedJobs, analysisPrompt, response, analysis,
                    commentBody >>

\* part_002:73-99: the log request settles; the job's section is appended,
\* the degraded one when the request threw.
JobLogsReturn ==
    /\ pc = "downloadJobLogsForWorkflowRun"
    /\ \E k \in Outstanding :
          /\ calls[k].api = "downloadJobLogsForWorkflowRun"
          /\ \/ \E data \in LogData : ReceiveJobLogs(k, data)
             \/ /\ failureDetails' =
                      failureDetails \o DegradedSection(failedJobs[idx])
                /\ calls' = Settled(k, "throw")
                /\ console' = Append(console, "Could not fetch logs for job")
    /\ idx' = idx + 1
    /\ pc' = "loop"
    /\ UNCHANGED << otherPrograms, finished, env, jobs, failedJobs, analysisPrompt, response, analysis,
                    commentBody, exitStatus >>

\* Mutant of LeaveLoop: the loop condition is off by one.
LeaveLoopOffByOne ==
    /\ pc = "loop"
    /\ idx > Len(failedJobs) + 1
    /\ pc' = "extracted"
    /\ UNCHANGED << otherPrograms, finished, env, calls, jobs, failedJobs, idx, failureDetails,
                    analysisPrompt, response, analysis, commentBody, exitStatus,
                    console >>

\* part_002:65,100: the loop ends after the last failed job.
LeaveLoop ==
    /\ pc = "loop"
    /\ idx > Len(failedJobs)
    /\ pc' = "extracted"
    /\ UNCHANGED << otherPrograms, finished, env, calls, jobs, failedJobs, idx, failureDetails,
                    analysisPrompt, response, analysis, commentBody, exitStatus,
                    console >>

\* Mutant of PreparePrompt: the prompt carries the time it was built at.
PreparePromptStamped ==
    /\ pc = "extracted"
    /\ console' = Append(console, "Analyzing failure with Claude via Bedrock...")
    /\ \E now \in { TimeA, TimeB } :
          analysisPrompt' = BuildPrompt(env.WORKFLOW_NAME, env.WORKFLOW_RUN_ID,
                                        Owner(env.GITHUB_REPOSITORY),
                                        Repo(env.GITHUB_REPOSITORY),
                                        failureDetails \o now)
    /\ pc' = "prompted"
    /\ UNCHANGED << otherPrograms, finished, env, calls, jobs, failedJobs, idx, failureDetails,
                    response, analysis, commentBody, exitStatus >>

\* part_002:102-137: the client is built and the prompt assembled.
PreparePrompt ==
    /\ pc = "extracted"
    /\ console' = Append(console, "Analyzing failure with Claude via Bedrock...")
    /\ analysisPrompt' = BuildPrompt(env.WORKFLOW_NAME, env.WORKFLOW_RUN_ID,
                                     Owner(env.GITHUB_REPOSITORY),
                                     Repo(env.GITHUB_REPOSITORY),
                                     failureDetails)
    /\ pc' = "prompted"
    /\ UNCHANGED << otherPrograms, finished, env, calls, jobs, failedJobs, idx, failureDetails,
                    response, analysis, commentBody, exitStatus >>

\* part_002:139-154: the prompt is sent as the only user message.
SendCommand ==
    /\ pc = "prompted"
    /\ calls' = Append(calls,
           [ Request("InvokeModel") EXCEPT
               !.modelId = "anthropic.claude-3-sonnet-20240229-v1:0",
               !.max_tokens = 2000,
               !.content = analysisPrompt ])
    /\ pc' = "InvokeModel"
    /\ UNCHANGED << otherPrograms, finished, env, jobs, failedJobs, idx, failureDetails,
                    analysisPrompt, response, analysis, commentBody, exitStatus,
                    console >>

\* Mutant of InvokeModelReturns: a failed request is sent again.
InvokeModelReturnsWithRetry ==
    /\ pc = "InvokeModel"
    /\ \E k \in Outstanding :
          /\ calls[k].api = "InvokeModel"
          /\ \/ \E responseBody \in ResponseBodies :
                /\ response' = << responseBody >>
                /\ IF ParseAnalysis(responseBody).ok
                   THEN /\ analysis' = ParseAnalysis(responseBody).text
                        /\ calls' = Settled(k, "ok")
                        /\ console' =
                               Append(console, "Bedrock analysis successful")
                        /\ pc' = "diagnosed"
                        /\ exitStatus' = exitStatus
                   ELSE /\ calls' = Settled(k, "ok")
                        /\ console' = console \o
                               << "Bedrock analysis successful",
                                  "Error analyzing failed workflow:" >>
                        /\ pc' = "FAILED"
                        /\ exitStatus' = << 1 >>
                        /\ analysis' = analysis
             \/ /\ Len(calls) < 2 * MaxJobs + 6
                /\ calls' = Append(Settled(k, "throw"),
                       [ calls[k] EXCEPT !.outcome = "pending" ])
                /\ UNCHANGED << pc, exitStatus, console, analysis, response >>
             \/ /\ Len(calls) >= 2 * MaxJobs + 6
                /\ CatchAtTopLevel(Settled(k, "throw"))
                /\ UNCHANGED << analysis, response >>
    /\ UNCHANGED << otherPrograms, finished, env, jobs, failedJobs, idx, failureDetails,
                    analysisPrompt, commentBody >>

\* part_002:154-157: the answer arrives and is parsed.
InvokeModelReturns ==
    /\ pc = "InvokeModel"
    /\ \E k \in Outstanding :
          /\ calls[k].api = "InvokeModel"
          /\ \/ \E responseBody \in ResponseBodies :
                /\ response' = << responseBody >>
                /\ IF ParseAnalysis(responseBody).ok
                   THEN /\ analysis' = ParseAnalysis(responseBody).text
                        /\ calls' = Settled(k, "ok")
                        /\ console' =
                               Append(console, "Bedrock analysis successful")
                        /\ pc' = "diagnosed"
                        /\ exitStatus' = exitStatus
                   ELSE /\ calls' = Settled(k, "ok")
                        /\ console' = console \o
                               << "Bedrock analysis successful",
                                  "Error analyzing failed workflow:" >>
                        /\ pc' = "FAILED"
                        /\ exitStatus' = << 1 >>
                        /\ analysis' = analysis
             \/ /\ CatchAtTopLevel(Settled(k, "throw"))
                /\ analysis' = analysis
                /\ response' = response
    /\ UNCHANGED << otherPrograms, finished, env, jobs, failedJobs, idx, failureDetails,
                    analysisPrompt, commentBody >>

\* Mutant of PostComment: no comment is created when an earlier invocation
\* created one with the same body.
PostCommentOnce ==
    /\ pc = "diagnosed"
    /\ console' = Append(console, "Creating comment with analysis...")
    /\ commentBody' = BuildComment(analysis, env.WORKFLOW_NAME)
    /\ IF \E i \in DOMAIN finished :
             \E j \in DOMAIN finished[i].comments :
                 finished[i].comments[j].body = commentBody'
       THEN /\ calls' = calls
            /\ pc' = "reported"
       ELSE /\ calls' = Append(calls,
                   IF CommentOnPullRequest(env.PULL_REQUEST_NUMBER)
                   THEN [ Request("createComment") EXCEPT
                            !.owner = Owner(env.GITHUB_REPOSITORY),
                            !.repo = Repo(env.GITHUB_REPOSITORY),
                            !.issue_number =
                                ParseInt(env.PULL_REQUEST_NUMBER),
                            !.body = commentBody' ]
                   ELSE [ Request("createCommitComment") EXCEPT
                            !.owner = Owner(env.GITHUB_REPOSITORY),
                            !.repo = Repo(env.GITHUB_REPOSITORY),
                            !.commit_sha = env.HEAD_SHA,
                            !.body = commentBody' ])
            /\ pc' = "posting"
    /\ UNCHANGED << otherPrograms, finished, env, jobs, failedJobs, idx, failureDetails,
                    analysisPrompt, response, analysis, exitStatus >>

\* part_002:159-185: the comment is built and posted on the pull request,
\* or on the commit.
PostComment ==
    /\ pc = "diagnosed"
    /\ console' = Append(console, "Creating comment with analysis...")
    /\ commentBody' = BuildComment(analysis, env.WORKFLOW_NAME)
    /\ IF CommentOnPullRequest(env.PULL_REQUEST_NUMBER)
       THEN calls' = Append(calls,
                [ Request("createComment") EXCEPT
                    !.owner = Owner(env.GITHUB_REPOSITORY),
                    !.repo = Repo(env.GITHUB_REPOSITORY),
                    !.issue_number = ParseInt(env.PULL_REQUEST_NUMBER),
                    !.body = commentBody' ])
       ELSE calls' = Append(calls,
                [ Request("createCommitComment") EXCEPT
                    !.owner = Owner(env.GITHUB_REPOSITORY),
                    !.repo = Repo(env.GITHUB_REPOSITORY),
                    !.commit_sha = env.HEAD_SHA,
                    !.body = commentBody' ])
    /\ pc' = "posting"
    /\ UNCHANGED << otherPrograms, finished, env, jobs, failedJobs, idx, failureDetails,
                    analysisPrompt, response, analysis, exitStatus >>

\* Mutant of CommentReturns: a pull-request comment that fails is followed by
\* a commit comment.
CommentReturnsWithFallback ==
    /\ pc = "posting"
    /\ \E k \in Outstanding :
          /\ calls[k].api \in { "createComment", "createCommitComment" }
          /\ \/ /\ calls' = Settled(k, "ok")
                /\ console' = Append(console, "Created analysis comment on")
                /\ pc' = "reported"
                /\ exitStatus' = exitStatus
             \/ /\ calls[k].api = "createComment"
                /\ calls' = Append(Settled(k, "throw"),
                       [ Request("createCommitComment") EXCEPT
                           !.owner = Owner(env.GITHUB_REPOSITORY),
                           !.repo = Repo(env.GITHUB_REPOSITORY),
                           !.commit_sha = env.HEAD_SHA,
                           !.body = commentBody ])
                /\ UNCHANGED << pc, exitStatus, console >>
             \/ /\ calls[k].api = "createCommitComment"
                /\ CatchAtTopLevel(Settled(k, "throw"))
    /\ UNCHANGED << otherPrograms, finished, env, jobs, failedJobs, idx, failureDetails,
                    analysisPrompt, response, analysis, commentBody >>

\* part_002:171-187: the comment request settles.
CommentReturns ==
    /\ pc = "posting"
    /\ \E k \in Outstanding :
          /\ calls[k].api \in { "createComment", "createCommitComment" }
          /\ \/ /\ calls' = Settled(k, "ok")
                /\ console' = Append(console, "Created analysis comment on")
                /\ pc' = "reported"
                /\ exitStatus' = exitStatus
             \/ CatchAtTopLevel(Settled(k, "throw"))
    /\ UNCHANGED << otherPrograms, finished, env, jobs, failedJobs, idx, failureDetails,
                    analysisPrompt, response, analysis, commentBody >>

\* Mutant of ReturnFromMain: a statement after the comment throws.
ReturnFromMainThrows ==
    /\ pc = "reported"
    /\ pc' = "FAILED"
    /\ exitStatus' = << 1 >>
    /\ console' = Append(console, "Error analyzing failed workflow:")
    /\ UNCHANGED << otherPrograms, finished, env, calls, jobs, failedJobs, idx, failureDetails,
                    analysisPrompt, response, analysis, commentBody >>

\* part_002:187-193: main returns and the process ends.
ReturnFromMain ==
    /\ pc = "reported"
    /\ pc' = "END"
    /\ exitStatus' = << 0 >>
    /\ UNCHANGED << otherPrograms, finished, env, calls, jobs, failedJobs, idx, failureDetails,
                    analysisPrompt, response, analysis, commentBody, console >>

Next ==
    \/ CheckEnvironment
    \/ GetWorkflowRunReturns
    \/ ListJobsReturns
    \/ SelectFailedJobs
    \/ RequestJobLogs
    \/ JobLogsReturn
    \/ LeaveLoop
    \/ PreparePrompt
    \/ SendCommand
    \/ InvokeModelReturns
    \/ PostComment
    \/ CommentReturns
    \/ ReturnFromMain

Spec ==
    Init /\ [][Next]_vars

\* Every request main awaits settles, with an answer or an error, and the
\* process runs every step that is ready: no step of main stays enabled for
\* ever without being taken.
SpecLive ==
    Spec /\ WF_vars(Next)

(***************************************************************************)
(* The extraction of part_002:68-93 on its own: main awaits the log of the *)
(* only failed job of a run, and the answer carries any of a family of     *)
(* logs long enough for slice(-10) to cut.                                 *)
(***************************************************************************)
(* The pipeline invoked again for the same run.  Every invocation is a     *)
(* process of its own (part_002:195): it starts from the environment alone *)
(* and keeps nothing of the invocation before it.  finished records, for   *)
(* each earlier invocation, its exit status, the answer of the inference   *)
(* endpoint it read, the comment body it built and the comment requests it *)
(* issued.                                                                 *)
(***************************************************************************)
MaxInvocations ==
    2

\* What an invocation leaves behind on GitHub and in its exit status.
Summary ==
    [ exitStatus  |-> exitStatus,
      response    |-> response,
      commentBody |-> commentBody,
      comments    |-> SelectSeq(calls,
                          LAMBDA c : c.api \in { "createComment",
                                                 "createCommitComment" }) ]

\* part_002:195: the process has ended and main is invoked again with the
\* same environment.
Restart ==
    /\ pc \in { "END", "FAILED" }
    /\ Len(finished) + 1 < MaxInvocations
    /\ finished' = Append(finished, Summary)
    /\ pc' = "start"
    /\ calls' = << >>
    /\ jobs' = << >>
    /\ failedJobs' = << >>
    /\ idx' = 1
    /\ failureDetails' = << >>
    /\ analysisPrompt' = << >>
    /\ response' = << >>
    /\ analysis' = << >>
    /\ commentBody' = << >>
    /\ exitStatus' = << >>
    /\ console' = << >>
    /\ UNCHANGED << otherPrograms, env >>

\* The environment of a run that can be analysed, with and without a pull
\* request.
InitRerun ==
    /\ Init
    /\ EnvironmentCheck(env) = "proceed"
    /\ env.GITHUB_REPOSITORY = RepoOR
    /\ env.PULL_REQUEST_NUMBER \in { Undefined, Pr42 }

NextRerun ==
    \/ Next
    \/ Restart

SpecRerun ==
    InitRerun /\ [][NextRerun]_vars

(***************************************************************************)

\* Longest log, in lines, of the family below.
MaxLogLines ==
    12

\* 'INFO: build error: disk full' : a log line holding error:
LineDiskFull ==
    << "I", "N", "F", "O", ":", " ", "b", "u", "i", "l", "d", " ", "e", "r",
       "r", "o", "r", ":", " ", "d", "i", "s", "k", " ", "f", "u", "l", "l" >>

\* 'INFO: build complete' : a log line without any pattern
LineComplete ==
    << "I", "N", "F", "O", ":", " ", "b", "u", "i", "l", "d", " ", "c", "o",
       "m", "p", "l", "e", "t", "e" >>

\* 'failed' : a log line that matches FAILED only when case is ignored
LineLowerFailed ==
    << "f", "a", "i", "l", "e", "d" >>

\* 'error' : a log line holding error without colon
LineLowerError ==
    << "e", "r", "r", "o", "r" >>

\* 'Failure in step' : a log line that matches FAILURE only when case is ignored
LineLowerFailure ==
    << "F", "a", "i", "l", "u", "r", "e", " ", "i", "n", " ", "s", "t", "e",
       "p" >>

\* 'TypeError thrown' : a log line holding Error
LineError ==
    << "T", "y", "p", "e", "E", "r", "r", "o", "r", " ", "t", "h", "r", "o",
       "w", "n" >>

\* '1 FAILED' : a log line holding FAILED
LineFAILED ==
    << "1", " ", "F", "A", "I", "L", "E", "D" >>

\* 'ERROR 1' : a log line holding ERROR
LineERROR ==
    << "E", "R", "R", "O", "R", " ", "1" >>

\* 'FAILURE' : a log line holding FAILURE
LineFAILURE ==
    << "F", "A", "I", "L", "U", "R", "E" >>

\* One letter per line of a log, to tell the lines apart.
Tags ==
    << "a", "b", "c", "d", "e", "f", "g", "h", "i", "j", "k", "l", "m",
       "n", "o", "p", "q", "r", "s", "t", "u", "v", "w", "x", "y", "z" >>

\* The five patterns of part_002:83-87, in turn.
Patterns ==
    << PatError, PatFAILED, PatErrorColon, PatERROR, PatFAILURE >>

\* The i-th line of a log, holding a pattern or not.
TaggedLine(i, salient) ==
    IF salient THEN Patterns[((i - 1) % Len(Patterns)) + 1] \o << " ", Tags[i] >>
    ELSE << "o", "k", " ", Tags[i] >>

\* The log of n lines, each ended by a newline, whose salient lines are
\* those at the positions S.
TaggedLog(n, S) ==
    LET text[i \in 0..n] ==
            IF i = 0 THEN << >>
            ELSE text[i - 1] \o TaggedLine(i, i \in S) \o NL
    IN  text[n]

TaggedLogs ==
    UNION { { TaggedLog(n, S) : S \in SUBSET (1..n) } : n \in 0..MaxLogLines }

PatternLines ==
    { LineDiskFull, LineComplete, LineLowerFailed, LineLowerError,
      LineLowerFailure, LineError, LineFAILED, LineERROR, LineFAILURE, << >> }

\* Logs of one line and of two lines.
PatternLogs ==
    PatternLines \cup { l1 \o NL \o l2 : l1 \in PatternLines, l2 \in PatternLines }

SampleLogs ==
    TaggedLogs \cup PatternLogs \cup { Undefined }

\* main has listed the jobs of run 555, found one failed job and awaits its
\* log (part_002:68).
InitLogs ==
    /\ env = [ AWS_ACCESS_KEY_ID     |-> KeyId,
               AWS_SECRET_ACCESS_KEY |-> Secret,
               WORKFLOW_RUN_ID       |-> RunId555,
               WORKFLOW_NAME         |-> NameCI,
               HEAD_SHA              |-> ShaAbc,
               PULL_REQUEST_NUMBER   |-> Pr42,
               GITHUB_REPOSITORY     |-> RepoOR ]
    /\ pc = "downloadJobLogsForWorkflowRun"
    /\ \E name \in { JobBuild, JobTest } :
          jobs = << [ id           |-> 1,
                      name         |-> name,
                      conclusion   |-> StrFailure,
                      started_at   |-> TimeA,
                      completed_at |-> TimeB ] >>
    /\ failedJobs = jobs
    /\ idx = 1
    /\ calls = << [ Request("getWorkflowRun") EXCEPT
                      !.owner = Owner(RepoOR), !.repo = Repo(RepoOR),
                      !.run_id = RunId555, !.outcome = "ok" ],
                  [ Request("listJobsForWorkflowRun") EXCEPT
                      !.owner = Owner(RepoOR), !.repo = Repo(RepoOR),
                      !.run_id = RunId555, !.outcome = "ok" ],
                  [ Request("downloadJobLogsForWorkflowRun") EXCEPT
                      !.owner = Owner(RepoOR), !.repo = Repo(RepoOR),
                      !.job_id = 1 ] >>
    /\ failureDetails = << >>
    /\ analysisPrompt = << >>
    /\ response = << >>
    /\ analysis = << >>
    /\ commentBody = << >>
    /\ exitStatus = << >>
    /\ console = << "Environment check:", "Fetching workflow run details...",
                    "Found failed job(s)", "Getting logs for job:" >>
    /\ finished = << >>
    /\ OtherProgramsNotStarted

\* part_002:68-93: the log arrives and the job's section is written.
ExtractFromLog ==
    /\ pc = "downloadJobLogsForWorkflowRun"
    /\ \E k \in Outstanding :
          /\ calls[k].api = "downloadJobLogsForWorkflowRun"
          /\ \E data \in SampleLogs : ReceiveJobLogs(k, data)
    /\ idx' = idx + 1
    /\ pc' = "loop"
    /\ UNCHANGED << otherPrograms, finished, env, jobs, failedJobs, analysisPrompt, response, analysis,
                    commentBody, exitStatus >>

NextLogs ==
    ExtractFromLog

SpecLogs ==
    InitLogs /\ [][NextLogs]_vars

(***************************************************************************)
(* The issue-revision handler: main of part_001.                           *)
(***************************************************************************)
\* part_001:19  'WIP'
PatWIP ==
    << "W", "I", "P" >>

\* part_001:36-39  '\n\nProject Context:\n'
IssuePromptContext ==
    << "\n", "\n", "P", "r", "o", "j", "e", "c", "t", " ", "C", "o", "n",
       "t", "e", "x", "t", ":", "\n" >>

\* part_001:39-42  '\n\nIssue Description to Revise:\n'
IssuePromptIssue ==
    << "\n", "\n", "I", "s", "s", "u", "e", " ", "D", "e", "s", "c", "r",
       "i", "p", "t", "i", "o", "n", " ", "t", "o", " ", "R", "e", "v",
       "i", "s", "e", ":", "\n" >>

\* part_001:42-44  '\n\nPlease provide only the revised issue description:'
IssuePromptTail ==
    << "\n", "\n", "P", "l", "e", "a", "s", "e", " ", "p", "r", "o", "v",
       "i", "d", "e", " ", "o", "n", "l", "y", " ", "t", "h", "e", " ",
       "r", "e", "v", "i", "s", "e", "d", " ", "i", "s", "s", "u", "e",
       " ", "d", "e", "s", "c", "r", "i", "p", "t", "i", "o", "n", ":" >>

\* an issue body marked WIP:  'WIP: login fails'
BodyWip ==
    << "W", "I", "P", ":", " ", "l", "o", "g", "i", "n", " ", "f", "a",
       "i", "l", "s" >>

\* an issue body with the mark in lower case:  'wip: login fails'
BodyLowerWip ==
    << "w", "i", "p", ":", " ", "l", "o", "g", "i", "n", " ", "f", "a",
       "i", "l", "s" >>

\* an issue body that holds WIP inside a word:  'SWIPE is slow'
BodySwipe ==
    << "S", "W", "I", "P", "E", " ", "i", "s", " ", "s", "l", "o", "w" >>

\* an issue body without the mark:  'Login fails'
BodyPlain ==
    << "L", "o", "g", "i", "n", " ", "f", "a", "i", "l", "s" >>

\* an issue number:  '7'
Issue7 ==
    << "7" >>

\* the text of system-prompt.txt:  'Revise the issue.'
SystemPromptText ==
    << "R", "e", "v", "i", "s", "e", " ", "t", "h", "e", " ", "i", "s",
       "s", "u", "e", "." >>

\* the text of project-context.txt:  'Innovator is a web app.'
ProjectContextText ==
    << "I", "n", "n", "o", "v", "a", "t", "o", "r", " ", "i", "s", " ",
       "a", " ", "w", "e", "b", " ", "a", "p", "p", "." >>

\* process.env and the two prompt files next to the script; a file that
\* does not exist is undefined here, readFileSync throws for it.
IssueInputs ==
    [ ISSUE_NUMBER      : { Undefined, Issue7 },
      ISSUE_BODY        : { Undefined, << >>, BodyWip, BodyLowerWip, BodySwipe,
                            BodyPlain },
      GITHUB_REPOSITORY : { Undefined, RepoOR },
      systemPromptFile  : { Undefined, SystemPromptText },
      projectContextFile : { Undefined, ProjectContextText } ]

\* Mutant of IssueCheck: the mark is looked for in every case.
IssueCheckAnyCase(e) ==
    IF ~Truthy(e.ISSUE_BODY) THEN "no_body"
    ELSE IF ~Includes(e.ISSUE_BODY, PatWIP)
            /\ ~Includes(e.ISSUE_BODY, << "w", "i", "p" >>) THEN "no_wip"
    ELSE IF e.systemPromptFile = Undefined \/ e.projectContextFile = Undefined
         THEN "throw"
    ELSE "proceed"

\* What the checks at the head of main decide (part_001:13-28).
IssueCheck(e) ==
    IF ~Truthy(e.ISSUE_BODY) THEN "no_body"
    ELSE IF ~Includes(e.ISSUE_BODY, PatWIP) THEN "no_wip"
    ELSE IF e.systemPromptFile = Undefined \/ e.projectContextFile = Undefined
         THEN "throw"
    ELSE "proceed"

\* The template of part_001:36-44.
FullPrompt(systemPrompt, projectContext, issueBody) ==
    systemPrompt \o IssuePromptContext \o projectContext
    \o IssuePromptIssue \o issueBody \o IssuePromptTail

\* A request as it was sent, its outcome open.
AsSent(call) ==
    [ call EXCEPT !.outcome = "pending" ]

\* The handler h with the outstanding request k settled.
IssueSettled(h, k, outcome) ==
    [ h EXCEPT !.calls[k].outcome = outcome ]

\* part_001:86-89: the error is logged and the process exits 1.
IssueCatch(h) ==
    [ h EXCEPT !.console = Append(h.console, "Error processing issue:"),
               !.pc = "FAILED",
               !.exitStatus = << 1 >> ]

\* part_001:15,21 and the end of main: main returns and the process ends.
IssueReturn(h, message) ==
    [ h EXCEPT !.console = Append(h.console, message),
               !.pc = "END",
               !.exitStatus = << 0 >> ]

\* The failure-triage pipeline does not run.
TriageNotStarted ==
    /\ env = NotStarted
    /\ pc = "not started"
    /\ calls = << >>
    /\ jobs = << >>
    /\ failedJobs = << >>
    /\ idx = 1
    /\ failureDetails = << >>
    /\ analysisPrompt = << >>
    /\ response = << >>
    /\ analysis = << >>
    /\ commentBody = << >>
    /\ exitStatus = << >>
    /\ console = << >>
    /\ finished = << >>

InitIssue ==
    /\ \E e \in IssueInputs :
          issueHandler = [ env                |-> e,
                           pc                 |-> "start",
                           calls              |-> << >>,
                           fullPrompt         |-> << >>,
                           response           |-> << >>,
                           revisedDescription |-> << >>,
                           exitStatus         |-> << >>,
                           console            |-> << >> ]
    /\ TriageNotStarted
    /\ imageUpload = NotStarted
    /\ analyzeImageRoute = NotStarted
    /\ chatPage = NotStarted

\* part_001:9-63: the issue body is checked, the prompt files are read, the
\* prompt is built and sent.
HandleIssue ==
    /\ issueHandler.pc = "start"
    /\ LET h == issueHandler
           e == h.env
       IN  issueHandler' =
             CASE IssueCheck(e) = "no_body" ->
                    IssueReturn(h, "No issue body found, skipping...")
               [] IssueCheck(e) = "no_wip" ->
                    IssueReturn(h,
                        "Issue does not contain \"WIP\", skipping revision...")
               [] IssueCheck(e) = "throw" ->
                    IssueCatch([ h EXCEPT !.console =
                        Append(h.console, "Processing WIP issue...") ])
               [] IssueCheck(e) = "proceed" ->
                    LET fullPrompt == FullPrompt(e.systemPromptFile,
                                                 e.projectContextFile,
                                                 e.ISSUE_BODY)
                    IN  [ h EXCEPT
                            !.console =
                                Append(h.console, "Processing WIP issue..."),
                            !.fullPrompt = fullPrompt,
                            !.calls = Append(h.calls,
                                [ Request("InvokeModel") EXCEPT
                                    !.modelId =
                                      "anthropic.claude-3-sonnet-20240229-v1:0",
                                    !.max_tokens = 4000,
                                    !.content = fullPrompt ]),
                            !.pc = "InvokeModel" ]
    /\ UNCHANGED << triage, imageUpload, analyzeImageRoute, chatPage >>

\* part_001:63-82: the inference request settles; its answer is parsed and
\* the issue update is sent.
IssueModelReturns ==
    /\ issueHandler.pc = "InvokeModel"
    /\ LET h == issueHandler
           k == Len(h.calls)
       IN  \/ issueHandler' = IssueCatch(IssueSettled(h, k, "throw"))
           \/ \E responseBody \in ResponseBodies :
                LET got == [ IssueSettled(h, k, "ok") EXCEPT
                               !.response = << responseBody >> ]
                    parsed == ParseAnalysis(responseBody)
                    described ==
                        [ got EXCEPT
                            !.revisedDescription = parsed.text,
                            !.console = Append(got.console,
                                "Got revised description from LLM") ]
                IN  issueHandler' =
                      IF ~parsed.ok THEN IssueCatch(got)
                      ELSE IF h.env.GITHUB_REPOSITORY = Undefined
                      THEN IssueCatch(described)
                      ELSE [ described EXCEPT
                               !.calls = Append(described.calls,
                                   [ Request("issues.update") EXCEPT
                                       !.owner = Owner(h.env.GITHUB_REPOSITORY),
                                       !.repo = Repo(h.env.GITHUB_REPOSITORY),
                                       !.issue_number =
                                           ParseInt(ToStr(h.env.ISSUE_NUMBER)),
                                       !.body = parsed.text ]),
                               !.pc = "issues.update" ]
    /\ UNCHANGED << triage, imageUpload, analyzeImageRoute, chatPage >>

\* Mutant of IssueUpdateReturns: an update that failed is sent once more.
IssueUpdateReturnsRetry ==
    /\ issueHandler.pc = "issues.update"
    /\ LET h == issueHandler
           k == Len(h.calls)
       IN  \/ issueHandler' =
                IssueReturn(IssueSettled(h, k, "ok"),
                            "Successfully updated issue")
           \/ /\ k < 3
              /\ issueHandler' =
                   [ IssueSettled(h, k, "throw") EXCEPT
                       !.calls = Append(IssueSettled(h, k, "throw").calls,
                                        AsSent(h.calls[k])) ]
           \/ /\ k >= 3
              /\ issueHandler' = IssueCatch(IssueSettled(h, k, "throw"))
    /\ UNCHANGED << triage, imageUpload, analyzeImageRoute, chatPage >>

\* part_001:77-89: the issue update settles.
IssueUpdateReturns ==
    /\ issueHandler.pc = "issues.update"
    /\ LET h == issueHandler
           k == Len(h.calls)
       IN  \/ issueHandler' =
                IssueReturn(IssueSettled(h, k, "ok"),
                            "Successfully updated issue")
           \/ issueHandler' = IssueCatch(IssueSettled(h, k, "throw"))
    /\ UNCHANGED << triage, imageUpload, analyzeImageRoute, chatPage >>

NextIssue ==
    \/ HandleIssue
    \/ IssueModelReturns
    \/ IssueUpdateReturns

SpecIssue ==
    InitIssue /\ [][NextIssue]_vars

(***************************************************************************)
(* The ImageUpload component (ImageUpload.tsx:72-198, the variant that     *)
(* uploads under a unique file name and then asks for a description).  A   *)
(* click or a file selection runs its handler up to the first await and    *)
(* React renders the new state before the browser delivers the next event: *)
(* the controls are enabled by the state as it is.                         *)
(***************************************************************************)
\* The handleUpload executions a behaviour may start.
MaxClicks ==
    2

\* a file name:  'cat.png'
FileCat ==
    << "c", "a", "t", ".", "p", "n", "g" >>

\* a file name without extension:  'photo'
FilePhoto ==
    << "p", "h", "o", "t", "o" >>

\* ImageUpload.tsx:149  'size'
PatSize ==
    << "s", "i", "z", "e" >>

\* ImageUpload.tsx:151  'type'
PatType ==
    << "t", "y", "p", "e" >>

\* an error message:  'file size exceeds the limit'
MessageTooBig ==
    << "f", "i", "l", "e", " ", "s", "i", "z", "e", " ", "e", "x", "c",
       "e", "e", "d", "s", " ", "t", "h", "e", " ", "l", "i", "m", "i",
       "t" >>

\* an error message:  'unsupported type'
MessageBadType ==
    << "u", "n", "s", "u", "p", "p", "o", "r", "t", "e", "d", " ", "t",
       "y", "p", "e" >>

\* an error message:  'timeout'
MessageTimeout ==
    << "t", "i", "m", "e", "o", "u", "t" >>

\* ImageUpload.tsx:123  '.'
Dot ==
    << "." >>

\* ImageUpload.tsx:107,164  'Failed to analyze image. Please try again.'
FailedToAnalyze ==
    << "F", "a", "i", "l", "e", "d", " ", "t", "o", " ", "a", "n", "a",
       "l", "y", "z", "e", " ", "i", "m", "a", "g", "e", ".", " ", "P",
       "l", "e", "a", "s", "e", " ", "t", "r", "y", " ", "a", "g", "a",
       "i", "n", "." >>

\* a description:  'A cat on a sofa.'
DescriptionCat ==
    << "A", " ", "c", "a", "t", " ", "o", "n", " ", "a", " ", "s", "o",
       "f", "a", "." >>

\* a description:  'A dog.'
DescriptionDog ==
    << "A", " ", "d", "o", "g", "." >>

FileNames ==
    { FileCat, FilePhoto }

\* `${Date.now()}-${Math.random().toString(36).substring(2)}`
Stamps ==
    { << "1", "7", "-", "k", "3" >>, << "1", "8", "-", "x", "9" >> }

\* What uploadData can reject with.
UploadErrors ==
    { [ name |-> "StorageError", message |-> MessageTooBig ],
      [ name |-> "NetworkError", message |-> MessageTimeout ],
      [ name |-> "Error",        message |-> MessageTooBig ],
      [ name |-> "Error",        message |-> MessageBadType ],
      [ name |-> "Error",        message |-> MessageTimeout ],
      [ name |-> "Error",        message |-> Undefined ] }

\* What the fetch of /api/analyze-image can end with: the request rejects,
\* or a response arrives; the body of a response is JSON with a description,
\* JSON without one, or no JSON (response.json() rejects).
AnalyzeAnswers ==
    { [ rejected |-> TRUE, status |-> 0, json |-> FALSE,
        description |-> Undefined ] }
    \cup [ rejected : { FALSE }, status : { 200, 400, 404, 500 },
           json : { TRUE },
           description : { Undefined, DescriptionCat, DescriptionDog } ]
    \cup [ rejected : { FALSE }, status : { 200, 500 }, json : { FALSE },
           description : { Undefined } ]

\* file.name.split('.').pop()
FileExtension(name) ==
    Split(name, ".")[Len(Split(name, "."))]

\* ImageUpload.tsx:124
UniqueFileName(stamp, name) ==
    stamp \o Dot \o FileExtension(name)

\* error.message?.includes(p)
MessageIncludes(error, p) ==
    error.message # Undefined /\ Includes(error.message, p)

\* The catch block of ImageUpload.tsx:145-155.
UploadErrorText(error) ==
    IF error.name = "StorageError"
    THEN "Storage error: Please check if the file is valid and try again."
    ELSE IF error.name = "NetworkError"
    THEN "Network error: Please check your internet connection."
    ELSE IF MessageIncludes(error, PatSize)
    THEN "File size error: The image might be too large. Please try a smaller file."
    ELSE IF MessageIncludes(error, PatType)
    THEN "Invalid file type: Please upload only image files."
    ELSE "Error uploading file. Please try again."

\* response.ok
ResponseOk(answer) ==
    answer.status >= 200 /\ answer.status <= 299

\* ImageUpload.tsx:99-107: what analyzeImage sets the description to.
DescriptionFrom(answer) ==
    IF answer.rejected \/ ~ResponseOk(answer) \/ ~answer.json
    THEN FailedToAnalyze
    ELSE answer.description

\* The input is enabled (ImageUpload.tsx:177).
InputEnabled ==
    ~(imageUpload.uploading \/ imageUpload.analyzing)

\* Mutant of ButtonEnabled: the button is disabled only without a file.
ButtonEnabledWhenFile ==
    imageUpload.file # << >>

\* The button is enabled (ImageUpload.tsx:181).
ButtonEnabled ==
    ~(imageUpload.file = << >> \/ imageUpload.uploading
      \/ imageUpload.analyzing)

\* ImageUpload.tsx:73-77: the component as mounted.  runs are the
\* executions of handleUpload, calls the requests they sent, each with the
\* execution that sent it.
InitUpload ==
    /\ imageUpload = [ pc               |-> "mounted",
                       file             |-> << >>,
                       uploading        |-> FALSE,
                       uploadResult     |-> "",
                       imageDescription |-> << >>,
                       analyzing        |-> FALSE,
                       runs             |-> << >>,
                       calls            |-> << >> ]
    /\ TriageNotStarted
    /\ issueHandler = NotStarted
    /\ analyzeImageRoute = NotStarted
    /\ chatPage = NotStarted

\* ImageUpload.tsx:79-86: the user picks a file in the file input.
HandleFileChange ==
    /\ InputEnabled
    /\ \E name \in FileNames :
          imageUpload' = [ imageUpload EXCEPT !.file = name,
                                              !.imageDescription = << >>,
                                              !.uploadResult = "" ]
    /\ UNCHANGED << triage, issueHandler, analyzeImageRoute, chatPage >>

\* ImageUpload.tsx:113-133: the user clicks the button; handleUpload runs to
\* the await of the upload.
HandleUpload ==
    /\ ButtonEnabled
    /\ Len(imageUpload.runs) < MaxClicks
    /\ \E stamp \in Stamps :
          LET uniqueFileName == UniqueFileName(stamp, imageUpload.file)
          IN  imageUpload' =
                [ imageUpload EXCEPT
                    !.uploading = TRUE,
                    !.runs = Append(imageUpload.runs,
                                [ pc |-> "uploadData",
                                  file |-> imageUpload.file,
                                  uniqueFileName |-> uniqueFileName ]),
                    !.calls = Append(imageUpload.calls,
                                [ api |-> "uploadData",
                                  run |-> Len(imageUpload.runs) + 1,
                                  key |-> uniqueFileName,
                                  outcome |-> "pending",
                                  answer |-> Undefined ]) ]
    /\ UNCHANGED << triage, issueHandler, analyzeImageRoute, chatPage >>

\* The request the run r awaits.
PendingCallOf(r) ==
    CHOOSE k \in DOMAIN imageUpload.calls :
        /\ imageUpload.calls[k].outcome = "pending"
        /\ imageUpload.calls[k].run = r

\* Mutant of UploadDataSettles: the catch block leaves uploading as it is.
UploadDataSettlesStaysBusy ==
    /\ \E r \in DOMAIN imageUpload.runs :
          /\ imageUpload.runs[r].pc = "uploadData"
          /\ LET k == PendingCallOf(r)
             IN  \/ imageUpload' =
                      [ imageUpload EXCEPT
                          !.calls = Append(
                              [ imageUpload.calls EXCEPT ![k].outcome = "ok" ],
                              [ api |-> "fetch /api/analyze-image",
                                run |-> r,
                                key |-> imageUpload.runs[r].uniqueFileName,
                                outcome |-> "pending",
                                answer |-> Undefined ]),
                          !.uploadResult = "File uploaded successfully!",
                          !.analyzing = TRUE,
                          !.runs[r].pc = "analyzeImage" ]
                 \/ \E error \in UploadErrors :
                      imageUpload' =
                        [ imageUpload EXCEPT
                            !.calls[k].outcome = "throw",
                            !.uploadResult = UploadErrorText(error),
                            !.runs[r].pc = "returned" ]
    /\ UNCHANGED << triage, issueHandler, analyzeImageRoute, chatPage >>

\* ImageUpload.tsx:126-157 and 88-97: the upload settles.  When it succeeded
\* analyzeImage starts and sends its request; when it failed the message is
\* chosen and handleUpload returns.
UploadDataSettles ==
    /\ \E r \in DOMAIN imageUpload.runs :
          /\ imageUpload.runs[r].pc = "uploadData"
          /\ LET k == PendingCallOf(r)
             IN  \/ imageUpload' =
                      [ imageUpload EXCEPT
                          !.calls = Append(
                              [ imageUpload.calls EXCEPT ![k].outcome = "ok" ],
                              [ api |-> "fetch /api/analyze-image",
                                run |-> r,
                                key |-> imageUpload.runs[r].uniqueFileName,
                                outcome |-> "pending",
                                answer |-> Undefined ]),
                          !.uploadResult = "File uploaded successfully!",
                          !.analyzing = TRUE,
                          !.runs[r].pc = "analyzeImage" ]
                 \/ \E error \in UploadErrors :
                      imageUpload' =
                        [ imageUpload EXCEPT
                            !.calls[k].outcome = "throw",
                            !.uploading = FALSE,
                            !.uploadResult = UploadErrorText(error),
                            !.runs[r].pc = "returned" ]
    /\ UNCHANGED << triage, issueHandler, analyzeImageRoute, chatPage >>

\* ImageUpload.tsx:91-110: the request of analyzeImage settles and
\* analyzeImage returns.
AnalyzeImageSettles ==
    /\ \E r \in DOMAIN imageUpload.runs :
          /\ imageUpload.runs[r].pc = "analyzeImage"
          /\ LET k == PendingCallOf(r)
             IN  \E answer \in AnalyzeAnswers :
                   imageUpload' =
                     [ imageUpload EXCEPT
                         !.calls[k].outcome =
                             IF answer.rejected THEN "throw" ELSE "ok",
                         !.calls[k].answer = answer,
                         !.imageDescription = DescriptionFrom(answer),
                         !.analyzing = FALSE,
                         !.runs[r].pc = "analyzed" ]
    /\ UNCHANGED << triage, issueHandler, analyzeImageRoute, chatPage >>

\* ImageUpload.tsx:139-167: handleUpload goes on after the await of line
\* 139.  The second try block names uniqueFileName, a const of the first try
\* block (line 124) that is out of scope here: evaluating it throws a
\* ReferenceError before analyzeImage is called, the catch of 162-164 sets
\* the failure text and the finally of 165-167 releases the flag.
ResumeHandleUpload ==
    /\ \E r \in DOMAIN imageUpload.runs :
          /\ imageUpload.runs[r].pc = "analyzed"
          /\ imageUpload' =
               [ imageUpload EXCEPT
                   !.imageDescription = FailedToAnalyze,
                   !.uploading = FALSE,
                   !.runs[r].pc = "returned" ]
    /\ UNCHANGED << triage, issueHandler, analyzeImageRoute, chatPage >>

NextUpload ==
    \/ HandleFileChange
    \/ HandleUpload
    \/ UploadDataSettles
    \/ AnalyzeImageSettles
    \/ ResumeHandleUpload

SpecUpload ==
    InitUpload /\ [][NextUpload]_vars

(***************************************************************************)
(* The analyze-image route: POST of src/app/api/analyze-image/route.ts     *)
(* (label detection) and of part_003:218-310 (inference).  The two         *)
(* handlers share their steps; variant tells which one serves the request. *)
(***************************************************************************)
\* route.ts:59  'This image contains: '
ThisImageContains ==
    << "T", "h", "i", "s", " ", "i", "m", "a", "g", "e", " ", "c", "o",
       "n", "t", "a", "i", "n", "s", ":", " " >>

\* route.ts:59  ', '
CommaSpace ==
    << ",", " " >>

\* route.ts:60  'No objects were detected in this image.'
NoObjectsDetected ==
    << "N", "o", " ", "o", "b", "j", "e", "c", "t", "s", " ", "w", "e",
       "r", "e", " ", "d", "e", "t", "e", "c", "t", "e", "d", " ", "i",
       "n", " ", "t", "h", "i", "s", " ", "i", "m", "a", "g", "e", "." >>

\* a label name:  'Cat'
LabelCat ==
    << "C", "a", "t" >>

\* a label name:  'Sofa'
LabelSofa ==
    << "S", "o", "f", "a" >>

\* a bucket name:  'uploads'
BucketUploads ==
    << "u", "p", "l", "o", "a", "d", "s" >>

RouteVariants ==
    { "rekognition", "bedrock" }

\* The keys the component asks about.
RouteKeys ==
    { UniqueFileName(stamp, FileCat) : stamp \in Stamps }

\* What request.json() meets: a body that is not JSON, the JSON null, or an
\* object whose imageKey is missing, empty or a key.
RequestBodies ==
    [ readable : { FALSE }, null : { FALSE }, imageKey : { Undefined } ]
    \cup [ readable : { TRUE }, null : { TRUE }, imageKey : { Undefined } ]
    \cup [ readable : { TRUE }, null : { FALSE },
           imageKey : { Undefined, << >> } \cup RouteKeys ]

\* process.env.S3_BUCKET_NAME
BucketNames ==
    { Undefined, BucketUploads }

\* What an awaited call can throw.
RouteErrors ==
    { [ name |-> "NoSuchKey",
        message |-> "The specified key does not exist." ],
      [ name |-> "AccessDeniedException", message |-> "Access denied" ],
      [ name |-> "TypeError", message |-> "fetch failed" ] }

\* What fetch(signedUrl) ends with: it rejects, or a response arrives whose
\* ok flag is set or not and whose arrayBuffer() resolves or rejects.
DownloadAnswers ==
    { [ rejected |-> TRUE, ok |-> FALSE, readable |-> FALSE ] }
    \cup [ rejected : { FALSE }, ok : BOOLEAN, readable : BOOLEAN ]

\* response.Labels of label detection: missing, or the labels' names.
LabelAnswers ==
    { [ missing |-> TRUE, names |-> << >> ] }
    \cup [ missing : { FALSE },
           names : { << >>, << LabelCat >>, << LabelCat, LabelSofa >> } ]

\* response.body of the inference: no JSON, or JSON whose content is
\* missing, empty, an item without text or an item with text.
ModelAnswers ==
    { [ json |-> FALSE, content |-> "missing", text |-> Undefined ] }
    \cup [ json : { TRUE }, content : { "missing", "empty" },
           text : { Undefined } ]
    \cup [ json : { TRUE }, content : { "item" },
           text : { Undefined, DescriptionCat } ]

\* route.ts:57-60
LabelsDescription(answer) ==
    LET labels == IF answer.missing THEN << >> ELSE answer.names
    IN  IF Len(labels) > 0
        THEN ThisImageContains \o Join(labels, CommaSpace)
        ELSE NoObjectsDetected

\* A request the handler awaits.
RouteCall(api) ==
    [ api |-> api, outcome |-> "pending", error |-> "", ok |-> TRUE ]

\* return NextResponse.json(...)
RouteRespond(h, reply) ==
    [ h EXCEPT !.responses = Append(@, reply), !.pc = "responded" ]

\* Mutant of RouteCatch: the catch block answers 200.
RouteCatchOk(h, error) ==
    RouteRespond(
        [ h EXCEPT !.console = Append(@, "Error analyzing image:") ],
        [ status |-> 200, error |-> "Failed to analyze image",
          details |-> IF h.variant = "bedrock" THEN error.message ELSE "",
          description |-> Undefined ])

\* route.ts:63-69, part_003:300-309: the catch block of the handler.
RouteCatch(h, error) ==
    RouteRespond(
        [ h EXCEPT !.console = Append(@, "Error analyzing image:") ],
        [ status |-> 500, error |-> "Failed to analyze image",
          details |-> IF h.variant = "bedrock" THEN error.message ELSE "",
          description |-> Undefined ])

\* Something throws between getSignedUrl and the answer.  part_003:291-299
\* answers 404 to a NoSuchKey and throws the rest on to the catch block of
\* the handler; route.ts has that catch block only.
RouteThrow(h, error) ==
    IF h.variant = "bedrock" /\ error.name = "NoSuchKey"
    THEN RouteRespond(h, [ status |-> 404,
                           error |-> "Image not found in S3 bucket",
                           details |-> "",
                           description |-> Undefined ])
    ELSE RouteCatch(h, error)

\* The awaited request settles as thrown.
RouteCallThrows(h, error) ==
    [ h EXCEPT !.calls[Len(h.calls)].outcome = "throw",
               !.calls[Len(h.calls)].error = error.name ]

\* The awaited request settles as returned.
RouteCallReturns(h) ==
    [ h EXCEPT !.calls[Len(h.calls)].outcome = "ok" ]

InitRoute ==
    /\ TriageNotStarted
    /\ issueHandler = NotStarted
    /\ imageUpload = NotStarted
    /\ chatPage = NotStarted
    /\ \E variant \in RouteVariants, body \in RequestBodies,
          bucketName \in BucketNames :
          analyzeImageRoute = [ pc         |-> "start",
                                variant    |-> variant,
                                body       |-> body,
                                bucketName |-> bucketName,
                                calls      |-> << >>,
                                responses  |-> << >>,
                                console    |-> << >> ]

\* route.ts:23-39, part_003:219-242: the handler up to its first await of an
\* external call.  request.json() rejects on a body that is not JSON, the
\* destructuring throws on null.
Post ==
    /\ analyzeImageRoute.pc = "start"
    /\ LET h == analyzeImageRoute
       IN  analyzeImageRoute' =
             IF ~h.body.readable
             THEN RouteCatch(h, [ name |-> "SyntaxError",
                                  message |-> "Unexpected end of JSON input" ])
             ELSE IF h.body.null
             THEN RouteCatch(h, [ name |-> "TypeError",
                                  message |-> "Cannot destructure property" ])
             ELSE IF ~Truthy(h.body.imageKey)
             THEN RouteRespond(h, [ status |-> 400,
                                    error |-> "Image key is required",
                                    details |-> "",
                                    description |-> Undefined ])
             ELSE IF h.variant = "bedrock" /\ ~Truthy(h.bucketName)
             THEN RouteCatch(h,
                    [ name |-> "Error",
                      message |->
                        "S3_BUCKET_NAME environment variable is not set" ])
             ELSE [ h EXCEPT !.calls = Append(@, RouteCall("getSignedUrl")),
                             !.pc = "getSignedUrl" ]
    /\ UNCHANGED << triage, issueHandler, imageUpload, chatPage >>

\* route.ts:39-42, part_003:242-245: getSignedUrl settles.
SignedUrlSettles ==
    /\ analyzeImageRoute.pc = "getSignedUrl"
    /\ LET h == analyzeImageRoute
       IN  \/ analyzeImageRoute' =
                [ RouteCallReturns(h) EXCEPT
                    !.calls = Append(@, RouteCall("fetch")),
                    !.pc = "fetch" ]
           \/ \E error \in RouteErrors :
                analyzeImageRoute' =
                    RouteThrow(RouteCallThrows(h, error), error)
    /\ UNCHANGED << triage, issueHandler, imageUpload, chatPage >>

\* route.ts:42-54, part_003:245-286: the download settles.  Only part_003
\* looks at imageResponse.ok (246-248).
DownloadSettles ==
    /\ analyzeImageRoute.pc = "fetch"
    /\ LET h == analyzeImageRoute
       IN  \E answer \in DownloadAnswers :
             analyzeImageRoute' =
               IF answer.rejected
               THEN LET error == [ name |-> "TypeError",
                                   message |-> "fetch failed" ]
                    IN  RouteThrow(RouteCallThrows(h, error), error)
               ELSE LET got == [ RouteCallReturns(h) EXCEPT
                                   !.calls[Len(h.calls)].ok = answer.ok ]
                    IN  IF h.variant = "bedrock" /\ ~answer.ok
                        THEN RouteThrow(got,
                               [ name |-> "Error",
                                 message |-> "Failed to download image: " ])
                        ELSE IF ~answer.readable
                        THEN RouteThrow(got, [ name |-> "TypeError",
                                               message |-> "terminated" ])
                        ELSE [ got EXCEPT
                                 !.calls = Append(@,
                                   RouteCall(IF h.variant = "bedrock"
                                             THEN "bedrock.send"
                                             ELSE "rekognition.send")),
                                 !.pc = "send" ]
    /\ UNCHANGED << triage, issueHandler, imageUpload, chatPage >>

\* route.ts:54-62: label detection settles.
DetectLabelsSettles ==
    /\ analyzeImageRoute.pc = "send"
    /\ analyzeImageRoute.variant = "rekognition"
    /\ LET h == analyzeImageRoute
       IN  \/ \E answer \in LabelAnswers :
                analyzeImageRoute' =
                    RouteRespond(RouteCallReturns(h),
                                 [ status |-> 200,
                                   error |-> "",
                                   details |-> "",
                                   description |-> LabelsDescription(answer) ])
           \/ \E error \in RouteErrors :
                analyzeImageRoute' =
                    RouteThrow(RouteCallThrows(h, error), error)
    /\ UNCHANGED << triage, issueHandler, imageUpload, chatPage >>

\* part_003:286-299: the inference settles.  JSON.parse throws on a body
\* that is not JSON, content[0] on a missing content, .text on a missing
\* item.
InvokeModelSettles ==
    /\ analyzeImageRoute.pc = "send"
    /\ analyzeImageRoute.variant = "bedrock"
    /\ LET h == analyzeImageRoute
       IN  \/ \E answer \in ModelAnswers :
                analyzeImageRoute' =
                    IF ~answer.json
                    THEN RouteThrow(RouteCallReturns(h),
                           [ name |-> "SyntaxError",
                             message |-> "Unexpected token" ])
                    ELSE IF answer.content # "item"
                    THEN RouteThrow(RouteCallReturns(h),
                           [ name |-> "TypeError",
                             message |-> "Cannot read properties of undefined" ])
                    ELSE RouteRespond(RouteCallReturns(h),
                                      [ status |-> 200,
                                        error |-> "",
                                        details |-> "",
                                        description |-> answer.text ])
           \/ \E error \in RouteErrors :
                analyzeImageRoute' =
                    RouteThrow(RouteCallThrows(h, error), error)
    /\ UNCHANGED << triage, issueHandler, imageUpload, chatPage >>

NextRoute ==
    \/ Post
    \/ SignedUrlSettles
    \/ DownloadSettles
    \/ DetectLabelsSettles
    \/ InvokeModelSettles

SpecRoute ==
    InitRoute /\ [][NextRoute]_vars

(***************************************************************************)
(* The chat page: App and sendPrompt of src/app/page.tsx.                  *)
(***************************************************************************)
\* Clicks on the button that are followed.
MaxSends ==
    2

\* page.tsx:51  'Error: Failed to get response from the model.'
FailedToGetResponse ==
    << "E", "r", "r", "o", "r", ":", " ", "F", "a", "i", "l", "e", "d",
       " ", "t", "o", " ", "g", "e", "t", " ", "r", "e", "s", "p", "o",
       "n", "s", "e", " ", "f", "r", "o", "m", " ", "t", "h", "e", " ",
       "m", "o", "d", "e", "l", "." >>

\* a prompt:  'hi'
PromptHi ==
    << "h", "i" >>

\* a prompt:  ' hi '
PromptHiSpaced ==
    << " ", "h", "i", " " >>

\* a prompt of white space:  ' \n'
PromptSpaces ==
    << " ", "\n" >>

\* an answer of the model:  'Hello!'
ReplyHello ==
    << "H", "e", "l", "l", "o", "!" >>

\* What the textarea can hold.
Prompts ==
    { << >>, PromptSpaces, PromptHi, PromptHiSpaced }

\* What bedrockClient.send ends with: it rejects, or data arrives whose body
\* is no JSON, or JSON whose content is missing, empty, an item without text
\* or an item with text.
ChatAnswers ==
    { [ rejected |-> TRUE, json |-> FALSE, content |-> "missing",
        text |-> Undefined ],
      [ rejected |-> FALSE, json |-> FALSE, content |-> "missing",
        text |-> Undefined ] }
    \cup [ rejected : { FALSE }, json : { TRUE },
           content : { "missing", "empty" }, text : { Undefined } ]
    \cup [ rejected : { FALSE }, json : { TRUE }, content : { "item" },
           text : { Undefined, ReplyHello } ]

\* Mutant of NothingToSend: only the empty prompt is held back.
NothingToSendUntrimmed(p) ==
    p = << >>

\* page.tsx:23  !prompt.trim()
NothingToSend(p) ==
    ~Truthy(Trim(p))

\* page.tsx:44-48: the try block runs to its end on this answer.
ChatParsed(answer) ==
    /\ ~answer.rejected
    /\ answer.json
    /\ answer.content = "item"

\* page.tsx:70
SendEnabled ==
    ~chatPage.loading

InitChat ==
    /\ TriageNotStarted
    /\ issueHandler = NotStarted
    /\ imageUpload = NotStarted
    /\ analyzeImageRoute = NotStarted
    /\ chatPage = [ pc       |-> "mounted",
                    prompt   |-> << >>,
                    response |-> << >>,
                    loading  |-> FALSE,
                    clicks   |-> 0,
                    calls    |-> << >> ]

\* page.tsx:63: the textarea changes.
SetPrompt ==
    /\ chatPage.pc = "mounted"
    /\ \E p \in Prompts : chatPage' = [ chatPage EXCEPT !.prompt = p ]
    /\ UNCHANGED << triage, issueHandler, imageUpload, analyzeImageRoute >>

\* page.tsx:22-44: a click on the enabled button runs sendPrompt up to its
\* await.
SendPrompt ==
    /\ chatPage.pc = "mounted"
    /\ SendEnabled
    /\ chatPage.clicks < MaxSends
    /\ chatPage' =
         IF NothingToSend(chatPage.prompt)
         THEN [ chatPage EXCEPT !.clicks = @ + 1 ]
         ELSE [ chatPage EXCEPT
                  !.clicks = @ + 1,
                  !.loading = TRUE,
                  !.calls = Append(@, [ api |-> "bedrock.send",
                                        content |-> chatPage.prompt,
                                        max_tokens |-> 1000,
                                        outcome |-> "pending",
                                        parsed |-> FALSE ]) ]
    /\ UNCHANGED << triage, issueHandler, imageUpload, analyzeImageRoute >>

\* page.tsx:44-54: the request settles.
SendSettles ==
    /\ chatPage.pc = "mounted"
    /\ \E k \in DOMAIN chatPage.calls :
          /\ chatPage.calls[k].outcome = "pending"
          /\ \E answer \in ChatAnswers :
                chatPage' =
                  [ chatPage EXCEPT
                      !.calls[k].outcome =
                          IF answer.rejected THEN "throw" ELSE "ok",
                      !.calls[k].parsed = ChatParsed(answer),
                      !.response = IF ChatParsed(answer)
                                   THEN answer.text
                                   ELSE FailedToGetResponse,
                      !.loading = FALSE ]
    /\ UNCHANGED << triage, issueHandler, imageUpload, analyzeImageRoute >>

NextChat ==
    \/ SetPrompt
    \/ SendPrompt
    \/ SendSettles

SpecChat ==
    InitChat /\ [][NextChat]_vars

(***************************************************************************)
(* Vocabulary of the properties.                                           *)
(***************************************************************************)
CallsTo(apis) ==
    { k \in DOMAIN calls : calls[k].api \in apis }

CommentApis ==
    { "createComment", "createCommitComment" }

LogCalls ==
    CallsTo({ "downloadJobLogsForWorkflowRun" })

InferenceCalls ==
    CallsTo({ "InvokeModel" })

CommentCalls ==
    CallsTo(CommentApis)

Terminated ==
    exitStatus # << >>

Logged(message) ==
    \E i \in DOMAIN console : console[i] = message

\* The job list has been received.
JobsListed ==
    \E k \in CallsTo({ "listJobsForWorkflowRun" }) : calls[k].outcome = "ok"

SomeJobFailed ==
    \E i \in DOMAIN jobs : jobs[i].conclusion = StrFailure

(***************************************************************************)
(* C1: when the job list of the run holds no job with conclusion           *)
(* 'failure', the invocation fetches no log, calls no inference and posts  *)
(* no comment, and once the jobs are filtered it has exited with status 0; *)
(* an inference call or a comment post exists only in an invocation whose  *)
(* job list holds a failed job.                                            *)
(***************************************************************************)
C1_NoFailedJobsNoSideEffect ==
    /\ (JobsListed /\ ~SomeJobFailed) =>
          /\ LogCalls = {}
          /\ InferenceCalls = {}
          /\ CommentCalls = {}
          /\ pc # "located" => (pc = "END" /\ exitStatus = << 0 >>)
    /\ (InferenceCalls # {} \/ CommentCalls # {}) =>
          (JobsListed /\ SomeJobFailed)

\* A run with jobs, none of them failed, has ended.
C1_Witness ==
    /\ JobsListed
    /\ Len(jobs) = MaxJobs
    /\ ~SomeJobFailed
    /\ \E i \in DOMAIN jobs : jobs[i].conclusion = StrCancelled
    /\ exitStatus = << 0 >>

(***************************************************************************)
(* C2: every comment request goes to the pull request when                 *)
(* PULL_REQUEST_NUMBER is set, not empty and not the string 'null' ('42'   *)
(* gives issue number 42), and otherwise to the commit HEAD_SHA.           *)
(***************************************************************************)
C2_PostingTarget ==
    \A k \in CommentCalls :
        IF env.PULL_REQUEST_NUMBER \in { Undefined, << >>, StrNull }
        THEN /\ calls[k].api = "createCommitComment"
             /\ calls[k].commit_sha = env.HEAD_SHA
        ELSE /\ calls[k].api = "createComment"
             /\ env.PULL_REQUEST_NUMBER = Pr42 =>
                    calls[k].issue_number = [ nan |-> FALSE, value |-> 42 ]

\* The sentinel 'null' was supplied and the comment went to the commit.
C2_Witness ==
    /\ env.PULL_REQUEST_NUMBER = StrNull
    /\ \E k \in CommentCalls :
          calls[k].api = "createCommitComment" /\ calls[k].outcome = "ok"

(***************************************************************************)
(* C3, as stated: every invocation that has ended issued exactly one       *)
(* comment request.                                                        *)
(***************************************************************************)
C3_Original ==
    Terminated => Cardinality(CommentCalls) = 1

(***************************************************************************)
(* C3, amended: an invocation issues at most one comment request, never    *)
(* one of each kind; it issues exactly one once it has obtained the        *)
(* diagnosis and started the Reporter, and none when it skipped or failed  *)
(* before.                                                                 *)
(***************************************************************************)
C3_AtMostOneWrite ==
    /\ Cardinality(CommentCalls) <= 1
    /\ ~( CallsTo({ "createComment" }) # {}
          /\ CallsTo({ "createCommitComment" }) # {} )
    /\ Logged("Creating comment with analysis...") =>
          Cardinality(CommentCalls) = 1
    /\ ~Logged("Creating comment with analysis...") => CommentCalls = {}

\* A pull-request comment failed and the invocation has ended.
C3_Witness ==
    /\ Terminated
    /\ \E k \in CommentCalls :
          calls[k].api = "createComment" /\ calls[k].outcome = "throw"


(***************************************************************************)
(* Faults other than a failed log fetch: missing credentials, a missing    *)
(* GITHUB_REPOSITORY, a request other than a log fetch that threw, or an   *)
(* answer of the model without a text payload.                             *)
(***************************************************************************)
CredentialsPresent ==
    env.AWS_ACCESS_KEY_ID # Undefined /\ env.AWS_SECRET_ACCESS_KEY # Undefined

RunIdPresent ==
    env.WORKFLOW_RUN_ID # Undefined /\ env.WORKFLOW_RUN_ID # << >>

ResponseUnparseable ==
    /\ response # << >>
    /\ ~response[1].json \/ Len(response[1].content) = 0

Fault ==
    \/ ~CredentialsPresent
    \/ RunIdPresent /\ env.GITHUB_REPOSITORY = Undefined
    \/ \E k \in DOMAIN calls :
          /\ calls[k].api # "downloadJobLogsForWorkflowRun"
          /\ calls[k].outcome = "throw"
    \/ ResponseUnparseable

LogFetchThrew ==
    \E k \in LogCalls : calls[k].outcome = "throw"

\* Text: "\n## Job: <name>\nStatus: <conclusion>\nError: Could not fetch
\* detailed logs\n".
DegradedText(job) ==
    << "\n", "#", "#", " ", "J", "o", "b", ":", " " >> \o job.name
    \o << "\n", "S", "t", "a", "t", "u", "s", ":", " " >> \o job.conclusion
    \o << "\n", "E", "r", "r", "o", "r", ":", " ", "C", "o", "u", "l", "d",
          " ", "n", "o", "t", " ", "f", "e", "t", "c", "h", " ", "d", "e",
          "t", "a", "i", "l", "e", "d", " ", "l", "o", "g", "s", "\n" >>

(***************************************************************************)
(* C4: a log fetch that throws leaves a degraded section with the job's    *)
(* name, its conclusion and 'Could not fetch detailed logs'; the loop goes *)
(* on to the remaining failed jobs (one fetch per failed job once the loop *)
(* is left); the invocation exits 1 only for another fault, and without    *)
(* one it ends with the prompt built around the sections, the inference    *)
(* called and the comment posted.                                          *)
(***************************************************************************)
C4_LogFetchFailureIsolated ==
    /\ \A k \in LogCalls : calls[k].outcome = "throw" =>
          \E i \in DOMAIN failedJobs :
              /\ failedJobs[i].id = calls[k].job_id
              /\ Includes(failureDetails, DegradedText(failedJobs[i]))
    /\ pc \in { "extracted", "prompted", "InvokeModel", "diagnosed",
                "posting", "reported" } =>
          /\ Cardinality(LogCalls) = Len(failedJobs)
          /\ \A i \in DOMAIN failedJobs :
                \E k \in LogCalls : calls[k].job_id = failedJobs[i].id
    /\ exitStatus = << 1 >> => Fault
    /\ (LogFetchThrew /\ Terminated /\ ~Fault) =>
          /\ pc = "END"
          /\ Includes(analysisPrompt, failureDetails)
          /\ \E k \in InferenceCalls :
                calls[k].outcome = "ok" /\ calls[k].content = analysisPrompt
          /\ \E k \in CommentCalls : calls[k].outcome = "ok"

\* The first of two log fetches threw, the second did not, and the comment
\* was posted.
C4_Witness ==
    /\ pc = "END"
    /\ \E k1, k2 \in LogCalls :
          /\ k1 < k2
          /\ calls[k1].outcome = "throw"
          /\ calls[k2].outcome = "ok"
    /\ \E k \in CommentCalls : calls[k].outcome = "ok"

(***************************************************************************)
(* C5, as stated: whenever WORKFLOW_RUN_ID is absent or empty, the         *)
(* invocation logs the skip, issues no external call and exits 0.          *)
(***************************************************************************)
C5_Original ==
    (~RunIdPresent /\ pc # "start") =>
        /\ calls = << >>
        /\ exitStatus = << 0 >>
        /\ Logged("No workflow run ID found, skipping...")

(***************************************************************************)
(* C5, amended: whenever WORKFLOW_RUN_ID is absent or empty, the           *)
(* invocation issues no external call; with both AWS credentials present   *)
(* it logs the skip and exits 0, and with a credential missing it logs     *)
(* that and exits 1 (the credentials are checked first).                   *)
(***************************************************************************)
C5_MissingRunIdSkip ==
    (~RunIdPresent /\ pc # "start") =>
        /\ calls = << >>
        /\ IF CredentialsPresent
           THEN /\ pc = "END"
                /\ exitStatus = << 0 >>
                /\ Logged("No workflow run ID found, skipping...")
           ELSE /\ pc = "FAILED"
                /\ exitStatus = << 1 >>
                /\ Logged("AWS credentials not found in environment variables")

\* An empty run id, with credentials: the invocation skipped.
C5_Witness ==
    /\ env.WORKFLOW_RUN_ID = << >>
    /\ CredentialsPresent
    /\ exitStatus = << 0 >>

(***************************************************************************)
(* C6: an invocation that has ended has exit status 0 or 1; 0 exactly when *)
(* it posted the comment or skipped early (returned for a missing run id,  *)
(* or the run had no failed job), 1 exactly when a fault occurred.         *)
(***************************************************************************)
CompletedNormally ==
    \E k \in CommentCalls : calls[k].outcome = "ok"

SkippedEarly ==
    \/ ~RunIdPresent /\ Logged("No workflow run ID found, skipping...")
    \/ JobsListed /\ ~SomeJobFailed

C6_ExitCodes ==
    /\ exitStatus \in { << >>, << 0 >>, << 1 >> }
    /\ Terminated <=> pc \in { "END", "FAILED" }
    /\ Terminated =>
          /\ exitStatus = << 0 >> <=> (CompletedNormally \/ SkippedEarly)
          /\ exitStatus = << 1 >> <=> Fault

\* The job listing threw and the invocation exited 1.
C6_Witness ==
    /\ exitStatus = << 1 >>
    /\ \E k \in CallsTo({ "listJobsForWorkflowRun" }) :
          calls[k].outcome = "throw"

(***************************************************************************)
(* C7: the inference endpoint is called at most once; when the call throws *)
(* or its answer holds no text payload, the invocation has exited 1 and no *)
(* comment request was issued.                                             *)
(***************************************************************************)
C7_InferenceFatalNoRetry ==
    /\ Cardinality(InferenceCalls) <= 1
    /\ \A k \in InferenceCalls :
          ( \/ calls[k].outcome = "throw"
            \/ calls[k].outcome = "ok" /\ ResponseUnparseable ) =>
              /\ pc = "FAILED"
              /\ exitStatus = << 1 >>
              /\ CommentCalls = {}

\* The answer was JSON without a content element: exit 1.
C7_Witness ==
    /\ response = << [ json |-> TRUE, content |-> << >> ] >>
    /\ exitStatus = << 1 >>

(***************************************************************************)
(* C8: an invocation that exits 1 has no comment request that succeeded,   *)
(* and a comment request that succeeded is the last external request.      *)
(***************************************************************************)
C8_WriteHappensLast ==
    /\ exitStatus = << 1 >> =>
          \A k \in CommentCalls : calls[k].outcome # "ok"
    /\ \A k \in CommentCalls : calls[k].outcome = "ok" => k = Len(calls)

\* The comment was posted and main has returned.
C8_Witness ==
    /\ pc = "END"
    /\ \E k \in CommentCalls : calls[k].outcome = "ok"
    /\ Len(calls) >= 5

(***************************************************************************)
(* The stages of the pipeline, read off the position of main.              *)
(***************************************************************************)
Stage(p) ==
    CASE p \in { "start", "getWorkflowRun", "listJobsForWorkflowRun" }
             -> "START"
      [] p \in { "located", "loop", "downloadJobLogsForWorkflowRun" }
             -> "located"
      [] p = "extracted" -> "extracted"
      [] p \in { "prompted", "InvokeModel" } -> "prompted"
      [] p \in { "diagnosed", "posting" } -> "diagnosed"
      [] p = "reported" -> "reported"
      [] p = "END" -> "END"
      [] p = "FAILED" -> "FAILED"

ForwardSteps ==
    { << "START", "located" >>, << "located", "END" >>,
      << "located", "extracted" >>, << "extracted", "prompted" >>,
      << "prompted", "diagnosed" >>, << "diagnosed", "reported" >>,
      << "reported", "END" >> }

FailureSteps ==
    { << s, "FAILED" >> : s \in { "START", "located", "extracted",
                                  "prompted", "diagnosed", "reported" } }

\* END and FAILED are left no more, and no request is issued there.
TerminalIsFinal ==
    pc \in { "END", "FAILED" } => (pc' = pc /\ calls' = calls)

(***************************************************************************)
(* C9, as stated: every step stays in its stage, moves along               *)
(* START -> located -> END or START -> located -> extracted -> prompted -> *)
(* diagnosed -> reported -> END, or goes to FAILED; END and FAILED are     *)
(* terminal.                                                               *)
(***************************************************************************)
C9_Original ==
    [][ /\ \/ Stage(pc') = Stage(pc)
           \/ << Stage(pc), Stage(pc') >> \in ForwardSteps \cup FailureSteps
        /\ TerminalIsFinal ]_vars

(***************************************************************************)
(* C9, amended: as stated, with one more transition: START -> END, taken   *)
(* without any external call when the run identifier is absent or empty.   *)
(* located -> END is taken only without a failed job, located -> extracted *)
(* only with one.                                                          *)
(***************************************************************************)
C9_StageMachine ==
    [][ /\ \/ Stage(pc') = Stage(pc)
           \/ << Stage(pc), Stage(pc') >> \in ForwardSteps \cup FailureSteps
           \/ /\ << Stage(pc), Stage(pc') >> = << "START", "END" >>
              /\ ~RunIdPresent
              /\ calls' = << >>
        /\ << Stage(pc), Stage(pc') >> = << "located", "END" >> =>
              ~SomeJobFailed
        /\ << Stage(pc), Stage(pc') >> = << "located", "extracted" >> =>
              SomeJobFailed
        /\ TerminalIsFinal ]_vars

\* The whole pipeline was run through: the comment is posted, main returned.
C9_Witness ==
    /\ pc = "END"
    /\ Logged("Created analysis comment on")
    /\ Len(failedJobs) = MaxJobs

(***************************************************************************)
(* C10: at most one external request is outstanding at any time: every     *)
(* request but the last issued has settled, so that no two log fetches     *)
(* overlap.                                                                *)
(***************************************************************************)
C10_OneOutstandingRequest ==
    /\ Cardinality(Outstanding) <= 1
    /\ \A k \in DOMAIN calls : k < Len(calls) => calls[k].outcome # "pending"

\* The second log fetch is outstanding, the first has settled.
C10_Witness ==
    \E k1, k2 \in LogCalls :
        /\ k1 < k2
        /\ calls[k1].outcome # "pending"
        /\ calls[k2].outcome = "pending"

(***************************************************************************)
(* Reading the failure-details text: its sections and their job names.     *)
(***************************************************************************)
\* Text: "\n## Job: ".
SectionMark ==
    << "\n", "#", "#", " ", "J", "o", "b", ":", " " >>

\* Text: "failure".
FailureText ==
    << "f", "a", "i", "l", "u", "r", "e" >>

\* The first position at which p occurs in t, 0 when it does not.
FirstAt(t, p) ==
    LET hits == { i \in 1..(Len(t) - Len(p) + 1) :
                      \A j \in 1..Len(p) : t[i + j - 1] = p[j] }
    IN  IF hits = {} THEN 0
        ELSE CHOOSE i \in hits : \A h \in hits : i <= h

\* t from position i on.
From(t, i) ==
    SubSeq(t, i, Len(t))

\* t before position i.
Before(t, i) ==
    SubSeq(t, 1, i - 1)

\* The texts of the sections of t, each from its mark to the next one.
RECURSIVE SectionsOf(_)
SectionsOf(t) ==
    LET first == FirstAt(t, SectionMark)
    IN  IF first = 0 THEN << >>
        ELSE LET body == From(t, first + Len(SectionMark))
                 next == FirstAt(body, SectionMark)
             IN  IF next = 0 THEN << SectionMark \o body >>
                 ELSE << SectionMark \o Before(body, next) >>
                      \o SectionsOf(From(body, next))

\* The job name a section is headed with: the text between the mark and the
\* end of the line.
NameOfSection(section) ==
    LET body == From(section, Len(SectionMark) + 1)
    IN  Before(body, FirstAt(body, << "\n" >>))

SectionNames(t) ==
    LET sections == SectionsOf(t)
    IN  [ i \in 1..Len(sections) |-> NameOfSection(sections[i]) ]

\* The jobs of the list with conclusion 'failure', in the order of the list.
FailedInListOrder ==
    LET F[i \in 0..Len(jobs)] ==
            IF i = 0 THEN << >>
            ELSE IF jobs[i].conclusion = FailureText
                 THEN Append(F[i - 1], jobs[i])
                 ELSE F[i - 1]
    IN  F[Len(jobs)]

\* main is in the loop of part_002:65-100 between two jobs, or has just left
\* it: the failure details take every value they ever have in these states,
\* no later step writes them.
DetailsWritten ==
    pc \in { "loop", "extracted" }

\* The log requests that have settled.
SettledLogCalls ==
    { k \in LogCalls : calls[k].outcome # "pending" }

(***************************************************************************)
(* C11: the sections of the failure details name, in order, the failed     *)
(* jobs of the job list in the order of the list: after n settled log      *)
(* fetches the first n of them, whether the fetches succeeded or threw.    *)
(* The text is read where the loop writes it and where the loop is left.   *)
(***************************************************************************)
C11_SectionOrder ==
    LET n == Cardinality(SettledLogCalls)
    IN  /\ n <= Len(FailedInListOrder)
        /\ DetailsWritten =>
              SectionNames(failureDetails)
                  = [ i \in 1..n |-> FailedInListOrder[i].name ]
        /\ pc \in { "extracted", "prompted", "InvokeModel", "diagnosed",
                    "posting", "reported" } => n = Len(FailedInListOrder)

\* Two failed jobs of different names; the first fetch threw, the second
\* succeeded, and both sections are written.
C11_Witness ==
    /\ pc = "extracted"
    /\ Len(FailedInListOrder) >= 2
    /\ FailedInListOrder[1].name # FailedInListOrder[2].name
    /\ \E k1, k2 \in LogCalls :
          /\ k1 < k2
          /\ calls[k1].outcome = "throw"
          /\ calls[k2].outcome = "ok"
    /\ Len(SectionsOf(failureDetails)) >= 2

(***************************************************************************)
(* Reading a log and a section: lines, patterns, emitted lines.            *)
(***************************************************************************)
\* The pieces of t between its newlines.
LinesOf(t) ==
    LET newlines == { i \in 1..Len(t) : t[i] = "\n" }
        n == Cardinality(newlines)
        at[k \in 0..(n + 1)] ==
            IF k = 0 THEN 0
            ELSE IF k = n + 1 THEN Len(t) + 1
            ELSE CHOOSE i \in newlines :
                     Cardinality({ j \in newlines : j <= i }) = k
    IN  [ k \in 1..(n + 1) |-> SubSeq(t, at[k - 1] + 1, at[k] - 1) ]

\* Texts: 'Error', 'FAILED', 'error:', 'ERROR', 'FAILURE'.
SalientPatterns ==
    { << "E", "r", "r", "o", "r" >>,
      << "F", "A", "I", "L", "E", "D" >>,
      << "e", "r", "r", "o", "r", ":" >>,
      << "E", "R", "R", "O", "R" >>,
      << "F", "A", "I", "L", "U", "R", "E" >> }

\* The line holds one of the five patterns, letter for letter.
HoldsPattern(line) ==
    \E p \in SalientPatterns : FirstAt(line, p) # 0

\* The lines of a log answer that hold a pattern, in the order of the log.
SalientLinesOf(data) ==
    IF data = Undefined THEN << >> ELSE SelectSeq(LinesOf(data), HoldsPattern)

\* Text: "\nKey error messages:\n".
KeyErrorsMark ==
    << "\n", "K", "e", "y", " ", "e", "r", "r", "o", "r", " ", "m", "e", "s",
       "s", "a", "g", "e", "s", ":", "\n" >>

\* The lines a section lists under 'Key error messages:', none without the
\* block.
EmittedLines(section) ==
    LET at == FirstAt(section, KeyErrorsMark)
    IN  IF at = 0 THEN << >>
        ELSE LET block == From(section, at + Len(KeyErrorsMark))
             IN  LinesOf(Before(block, Len(block)))

\* The i-th log request of the invocation.
NthLogCall(i) ==
    CHOOSE k \in LogCalls : Cardinality({ j \in LogCalls : j <= k }) = i

(***************************************************************************)
(* C12: the lines a job's section lists are the salient lines of its log   *)
(* in the order of the log: the last 10 of them when there are more than   *)
(* 10, all of them otherwise.                                              *)
(***************************************************************************)
C12_LastTenSalientLines ==
    LET sections == SectionsOf(failureDetails)
    IN  \A i \in 1..Len(sections) :
            calls[NthLogCall(i)].outcome = "ok" =>
                LET salient == SalientLinesOf(calls[NthLogCall(i)].data)
                    emitted == EmittedLines(sections[i])
                IN  IF Len(salient) > 10
                    THEN /\ Len(emitted) = 10
                         /\ \A j \in 1..10 :
                               emitted[j] = salient[Len(salient) - 10 + j]
                    ELSE emitted = salient

\* A log with more than 10 salient lines, a plain line among the last ten,
\* has been cut to ten.
C12_Witness ==
    /\ SettledLogCalls # {}
    /\ \E k \in SettledLogCalls :
          /\ calls[k].outcome = "ok"
          /\ Len(SalientLinesOf(calls[k].data)) = 11
          /\ Len(LinesOf(calls[k].data)) = 13
    /\ Len(EmittedLines(failureDetails)) = 10

\* The line is one of those listed.
Listed(line, emitted) ==
    \E e \in DOMAIN emitted : emitted[e] = line

(***************************************************************************)
(* C13: a line of a job's log is listed in the job's section if and only   *)
(* if it holds one of 'Error', 'FAILED', 'error:', 'ERROR', 'FAILURE',     *)
(* letter for letter (for a log with at most 10 such lines, so that none   *)
(* is cut): 'INFO: build error: disk full' is listed; 'INFO: build         *)
(* complete', 'failed', 'error' and 'Failure in step' are not.             *)
(***************************************************************************)
C13_SalientPredicate ==
    LET sections == SectionsOf(failureDetails)
    IN  \A i \in 1..Len(sections) :
            ( /\ calls[NthLogCall(i)].outcome = "ok"
              /\ calls[NthLogCall(i)].data # Undefined
              /\ Len(SalientLinesOf(calls[NthLogCall(i)].data)) <= 10 ) =>
                LET lines == LinesOf(calls[NthLogCall(i)].data)
                    emitted == EmittedLines(sections[i])
                IN  \A j \in DOMAIN lines :
                        /\ Listed(lines[j], emitted) <=> HoldsPattern(lines[j])
                        /\ lines[j] = LineDiskFull => Listed(lines[j], emitted)
                        /\ lines[j] \in { LineComplete, LineLowerFailed,
                                          LineLowerError, LineLowerFailure }
                               => ~Listed(lines[j], emitted)

\* A log of 'error' and 'INFO: build error: disk full': only the second line
\* is listed.
C13_Witness ==
    \E k \in SettledLogCalls :
        /\ calls[k].outcome = "ok"
        /\ calls[k].data = LineLowerError \o << "\n" >> \o LineDiskFull
        /\ EmittedLines(failureDetails) = << LineDiskFull >>

\* Text: "\nStatus: failure\n".
StatusFailureLine ==
    << "\n", "S", "t", "a", "t", "u", "s", ":", " " >> \o FailureText
    \o << "\n" >>

(***************************************************************************)
(* C14: every log request is for a job of the list whose conclusion is     *)
(* 'failure', no job is requested twice, and once the loop is left every   *)
(* failed job has been requested; the details hold one section per settled *)
(* log request, each with the status line 'Status: failure'; the text is   *)
(* read where the loop writes it and where the loop is left.               *)
(***************************************************************************)
C14_OnlyFailedJobsInspected ==
    /\ \A k \in LogCalls :
          \E i \in DOMAIN jobs :
              /\ jobs[i].id = calls[k].job_id
              /\ jobs[i].conclusion = FailureText
    /\ \A k1, k2 \in LogCalls :
          calls[k1].job_id = calls[k2].job_id => k1 = k2
    /\ pc \in { "extracted", "prompted", "InvokeModel", "diagnosed",
                "posting", "reported" } =>
          \A i \in DOMAIN jobs :
              jobs[i].conclusion = FailureText =>
                  \E k \in LogCalls : calls[k].job_id = jobs[i].id
    /\ DetailsWritten =>
          LET sections == SectionsOf(failureDetails)
          IN  /\ Len(sections) = Cardinality(SettledLogCalls)
              /\ \A i \in 1..Len(sections) :
                    FirstAt(sections[i], StatusFailureLine) # 0

\* A list with a cancelled, a succeeded and a failed job: one log request.
C14_Witness ==
    /\ pc = "extracted"
    /\ \E i, j \in DOMAIN jobs :
          /\ jobs[i].conclusion = StrCancelled
          /\ jobs[j].conclusion = FailureText
    /\ Cardinality(LogCalls) = 1
    /\ Len(SectionsOf(failureDetails)) = 1

\* The invocations so far, the running one last.
Invocations ==
    finished \o << Summary >>

\* An invocation reached the Reporter: it built a comment body (part_002:162).
ReachedReporter(invocation) ==
    invocation.commentBody # << >>

RECURSIVE CommentRequests(_)
CommentRequests(invocations) ==
    IF invocations = << >> THEN 0
    ELSE Len(Head(invocations).comments) + CommentRequests(Tail(invocations))

(***************************************************************************)
(* C15: there is no idempotency guard.  Over all invocations of main for   *)
(* the same run, the number of comment requests is the number of           *)
(* invocations that reached the Reporter, one request each, whatever the   *)
(* earlier invocations posted; an invocation that ends normally with a     *)
(* failed job has issued its comment request.                              *)
(***************************************************************************)
C15_NoIdempotencyGuard ==
    /\ CommentRequests(Invocations)
         = Cardinality({ i \in DOMAIN Invocations :
                             ReachedReporter(Invocations[i]) })
    /\ \A i \in DOMAIN Invocations :
          ReachedReporter(Invocations[i]) =>
              Len(Invocations[i].comments) = 1
    /\ (pc = "END" /\ failedJobs # << >>) =>
          /\ Len(Summary.comments) = 1
          /\ Summary.comments[1].outcome = "ok"

\* The second invocation has posted the comment the first one posted: the
\* same body on the same target.
C15_Witness ==
    /\ Len(finished) = 1
    /\ finished[1].exitStatus = << 0 >>
    /\ Len(finished[1].comments) = 1
    /\ finished[1].comments[1].outcome = "ok"
    /\ pc = "END"
    /\ Len(Summary.comments) = 1
    /\ Summary.comments[1] = finished[1].comments[1]

\* The top-level handler ran (part_002:189-192).
HandlerRan ==
    Logged("Error analyzing failed workflow:")

\* The credentials check ended the process (part_002:22-25).
CredentialsExit ==
    /\ ~CredentialsPresent
    /\ Logged("AWS credentials not found in environment variables")
    /\ calls = << >>

\* Every request that threw, other than a log request, is the last request
\* of the invocation and was handled at the top level; a log request that
\* threw was logged and nothing else.
ErrorsPropagate ==
    /\ \A k \in DOMAIN calls :
          calls[k].outcome = "throw" =>
              IF calls[k].api = "downloadJobLogsForWorkflowRun"
              THEN Logged("Could not fetch logs for job")
              ELSE /\ k = Len(calls)
                   /\ pc = "FAILED"
                   /\ HandlerRan
    /\ ResponseUnparseable =>
          /\ pc = "FAILED"
          /\ HandlerRan
          /\ CommentCalls = { }
    /\ (pc = "FAILED" /\ calls # << >>) =>
          calls[Len(calls)].api # "downloadJobLogsForWorkflowRun"
    /\ HandlerRan => exitStatus = << 1 >>

\* C16 as stated: exit status 1 is decided by the top-level handler alone.
C16_Original ==
    /\ ErrorsPropagate
    /\ exitStatus = << 1 >> => HandlerRan

(***************************************************************************)
(* C16: a log request that throws is caught and downgraded on the spot;    *)
(* every other error reaches the top-level handler and no later request    *)
(* follows it.  Exit status 1 is decided by the top-level handler or, when *)
(* the credentials are missing, by the check at the head of main, which    *)
(* ends the process without the handler.                                   *)
(***************************************************************************)
C16_ErrorPropagation ==
    /\ ErrorsPropagate
    /\ exitStatus = << 1 >> => (HandlerRan \/ CredentialsExit)
    /\ ~(HandlerRan /\ CredentialsExit)

\* A log request threw and main went on; the comment request threw and the
\* handler ended the process.
C16_Witness ==
    /\ LogFetchThrew
    /\ \E k \in CommentCalls : calls[k].outcome = "throw"
    /\ HandlerRan
    /\ exitStatus = << 1 >>

\* Text: "\n## Job: <name>\nStatus: <conclusion>\nStarted: <start time>\n
\* Completed: <end time>\n".
SectionHeader(job) ==
    SectionMark \o job.name
    \o << "\n", "S", "t", "a", "t", "u", "s", ":", " " >> \o job.conclusion
    \o << "\n", "S", "t", "a", "r", "t", "e", "d", ":", " " >>
    \o job.started_at
    \o << "\n", "C", "o", "m", "p", "l", "e", "t", "e", "d", ":", " " >>
    \o job.completed_at \o << "\n" >>

\* The job a request for logs names.
JobOfCall(k) ==
    CHOOSE job \in { jobs[i] : i \in DOMAIN jobs } : job.id = calls[k].job_id

(***************************************************************************)
(* C17: the section of a job whose log was fetched is the header with the  *)
(* job's name, conclusion, start time and end time, and nothing more when  *)
(* the log is missing, empty or has no salient line; when the log has a    *)
(* salient line the header is followed by the 'Key error messages:' block. *)
(***************************************************************************)
C17_SectionComposition ==
    LET sections == SectionsOf(failureDetails)
    IN  \A i \in 1..Len(sections) :
            LET k == NthLogCall(i)
                header == SectionHeader(JobOfCall(k))
                n == Len(header)
                m == Len(KeyErrorsMark)
            IN  calls[k].outcome = "ok" =>
                    IF SalientLinesOf(calls[k].data) = << >>
                    THEN sections[i] = header
                    ELSE /\ Len(sections[i]) > n + m
                         /\ SubSeq(sections[i], 1, n) = header
                         /\ SubSeq(sections[i], n + 1, n + m) = KeyErrorsMark

\* A log of two lines, neither salient: the section is the header alone.
C17_Witness ==
    \E k \in SettledLogCalls :
        /\ calls[k].outcome = "ok"
        /\ calls[k].data = LineComplete \o << "\n" >> \o LineLowerError
        /\ failureDetails = SectionHeader(JobOfCall(k))

\* Text: "- Name: ".
NameItem ==
    << "-", " ", "N", "a", "m", "e", ":", " " >>

\* Text: "- Run ID: ".
RunIdItem ==
    << "-", " ", "R", "u", "n", " ", "I", "D", ":", " " >>

\* Text: "- Repository: ".
RepositoryItem ==
    << "-", " ", "R", "e", "p", "o", "s", "i", "t", "o", "r", "y",
       ":", " " >>

\* Text: "**Failure Details:**\n".
DetailsHeading ==
    << "*", "*", "F", "a", "i", "l", "u", "r", "e", " ", "D", "e",
       "t", "a", "i", "l", "s", ":", "*", "*", "\n" >>

\* Text: "\n\n**Instructions:**".
InstructionsHeading ==
    << "\n", "\n", "*", "*", "I", "n", "s", "t", "r", "u", "c", "t",
       "i", "o", "n", "s", ":", "*", "*" >>

\* Text: "Error: module not found".
ModuleNotFound ==
    << "E", "r", "r", "o", "r", ":", " ", "m", "o", "d", "u", "l",
       "e", " ", "n", "o", "t", " ", "f", "o", "u", "n", "d" >>

\* The text t holds the text p.
Holds(t, p) ==
    FirstAt(t, p) # 0

\* The salient lines the sections keep: of every log fetched, its last ten.
KeptLines ==
    UNION { LET salient == SalientLinesOf(calls[k].data)
                n == Len(salient)
            IN  { salient[i] : i \in { j \in 1..n : j > n - 10 } }
            : k \in { c \in SettledLogCalls : calls[c].outcome = "ok" } }

(***************************************************************************)
(* C18: the prompt sent to the inference endpoint holds the run name, the  *)
(* run identifier and the owner/repo identity as items of its list, the    *)
(* whole failure-details text unchanged between the 'Failure Details'      *)
(* heading and the instructions, and so every salient line a section       *)
(* keeps.  The request is read while it is in flight.                      *)
(***************************************************************************)
C18_PromptEmbedding ==
    \A k \in InferenceCalls \cap Outstanding :
        LET prompt == calls[k].content
        IN  /\ Holds(prompt, NameItem \o env.WORKFLOW_NAME \o << "\n" >>)
            /\ Holds(prompt, RunIdItem \o env.WORKFLOW_RUN_ID \o << "\n" >>)
            /\ Holds(prompt,
                     RepositoryItem \o env.GITHUB_REPOSITORY \o << "\n" >>)
            /\ Holds(prompt,
                     DetailsHeading \o failureDetails \o InstructionsHeading)
            /\ \A line \in KeptLines : Holds(prompt, line)

\* The log of the second failed job holds 'Error: module not found', and so
\* does the prompt that was sent.
C18_Witness ==
    /\ Len(failedJobs) = 2
    /\ \E k \in SettledLogCalls :
          /\ calls[k].job_id = failedJobs[2].id
          /\ ModuleNotFound \in KeptLines
    /\ \E k \in InferenceCalls \cap Outstanding :
          Holds(calls[k].content, ModuleNotFound)

\* Text: "## <robot face> Automated Failure Analysis".
AnalysisHeading ==
    << "#", "#", " ", "U+1F916", " ", "A", "u", "t", "o", "m", "a",
       "t", "e", "d", " ", "F", "a", "i", "l", "u", "r", "e", " ",
       "A", "n", "a", "l", "y", "s", "i", "s" >>

\* Text: "\n\n---\n*This analysis was generated automatically by Claude via AWS
\* Bedrock when the \"".
FooterOpening ==
    << "\n", "\n", "-", "-", "-", "\n", "*", "T", "h", "i", "s", " ",
       "a", "n", "a", "l", "y", "s", "i", "s", " ", "w", "a", "s",
       " ", "g", "e", "n", "e", "r", "a", "t", "e", "d", " ", "a",
       "u", "t", "o", "m", "a", "t", "i", "c", "a", "l", "l", "y",
       " ", "b", "y", " ", "C", "l", "a", "u", "d", "e", " ", "v",
       "i", "a", " ", "A", "W", "S", " ", "B", "e", "d", "r", "o",
       "c", "k", " ", "w", "h", "e", "n", " ", "t", "h", "e", " ",
       "\"" >>

\* Text: "\" workflow failed.*".
FooterClosing ==
    << "\"", " ", "w", "o", "r", "k", "f", "l", "o", "w", " ", "f",
       "a", "i", "l", "e", "d", ".", "*" >>

\* Text: "Fix the import.".
FixTheImport ==
    << "F", "i", "x", " ", "t", "h", "e", " ", "i", "m", "p", "o",
       "r", "t", "." >>

\* The text without the white space around it.
WithoutSurroundingSpace(text) ==
    LET inked == { i \in 1..Len(text) : text[i] \notin { " ", "\t", "\n", "\r" } }
    IN  IF inked = { } THEN << >>
        ELSE SubSeq(text,
                    CHOOSE i \in inked : \A j \in inked : i <= j,
                    CHOOSE i \in inked : \A j \in inked : j <= i)

\* The body of a comment that reports the diagnosis text for the workflow.
ReportOf(text, workflow) ==
    AnalysisHeading \o << "\n", "\n" >> \o WithoutSurroundingSpace(text)
    \o FooterOpening \o workflow \o FooterClosing

(***************************************************************************)
(* C19: the body of every comment request, on a pull request or on a       *)
(* commit, is the heading '## <robot face> Automated Failure Analysis', an *)
(* empty line, the text of the inference answer without the white space    *)
(* around it, and the footer that names the workflow.                      *)
(***************************************************************************)
C19_CommentBody ==
    \A k \in CommentCalls :
        /\ response # << >>
        /\ response[1].json
        /\ Len(response[1].content) > 0
        /\ calls[k].body = ReportOf(response[1].content[1].text,
                                    env.WORKFLOW_NAME)
        /\ SubSeq(calls[k].body, 1, Len(AnalysisHeading)) = AnalysisHeading

\* The answer '\n Fix the import.\n' has been posted on the commit, trimmed.
C19_Witness ==
    \E k \in CommentCalls :
        /\ calls[k].api = "createCommitComment"
        /\ calls[k].outcome = "ok"
        /\ response[1].content[1].text
             = << "\n", " " >> \o FixTheImport \o << "\n" >>
        /\ calls[k].body = AnalysisHeading \o << "\n", "\n" >> \o FixTheImport
                           \o FooterOpening \o env.WORKFLOW_NAME
                           \o FooterClosing

(***************************************************************************)
(* The requests of an invocation as a function of its inputs: the          *)
(* environment and the answers main has read before each request.          *)
(***************************************************************************)
\* A request without what came back for it.
AsIssued(call) ==
    [ call EXCEPT !.outcome = "pending", !.data = Undefined ]

\* The failure details the answers to the log requests determine; the log
\* request of the i-th failed job is the request 2 + i.
DetailsFromAnswers ==
    LET failed == FailedInListOrder
        d[i \in 0..Len(failed)] ==
            IF i = 0 THEN << >>
            ELSE d[i - 1] \o ( IF calls[2 + i].outcome = "ok"
                               THEN JobSection(failed[i], calls[2 + i].data)
                               ELSE DegradedSection(failed[i]) )
    IN  d[Len(failed)]

PromptFromAnswers ==
    BuildPrompt(env.WORKFLOW_NAME, env.WORKFLOW_RUN_ID,
                Owner(env.GITHUB_REPOSITORY), Repo(env.GITHUB_REPOSITORY),
                DetailsFromAnswers)

BodyFromAnswers ==
    BuildComment(ParseAnalysis(response[1]).text, env.WORKFLOW_NAME)

\* The k-th request main issues, given the environment and the answers to
\* the requests before it.
RequestFromAnswers(k) ==
    LET failed == FailedInListOrder
        to == [ Request("") EXCEPT !.owner = Owner(env.GITHUB_REPOSITORY),
                                   !.repo = Repo(env.GITHUB_REPOSITORY) ]
    IN  IF k = 1
        THEN [ to EXCEPT !.api = "getWorkflowRun",
                         !.run_id = env.WORKFLOW_RUN_ID ]
        ELSE IF k = 2
        THEN [ to EXCEPT !.api = "listJobsForWorkflowRun",
                         !.run_id = env.WORKFLOW_RUN_ID ]
        ELSE IF k <= 2 + Len(failed)
        THEN [ to EXCEPT !.api = "downloadJobLogsForWorkflowRun",
                         !.job_id = failed[k - 2].id ]
        ELSE IF k = 3 + Len(failed)
        THEN [ Request("InvokeModel") EXCEPT
                 !.modelId = "anthropic.claude-3-sonnet-20240229-v1:0",
                 !.max_tokens = 2000,
                 !.content = PromptFromAnswers ]
        ELSE IF CommentOnPullRequest(env.PULL_REQUEST_NUMBER)
        THEN [ to EXCEPT !.api = "createComment",
                         !.issue_number = ParseInt(env.PULL_REQUEST_NUMBER),
                         !.body = BodyFromAnswers ]
        ELSE [ to EXCEPT !.api = "createCommitComment",
                         !.commit_sha = env.HEAD_SHA,
                         !.body = BodyFromAnswers ]

(***************************************************************************)
(* C20: the pipeline is deterministic.  In every invocation, the first or  *)
(* a later one, each request is determined by the environment and the      *)
(* answers read before it, and so are the prompt and the comment body;     *)
(* nothing of an earlier invocation enters.  Two invocations with the same *)
(* environment that read the same inference answer create the same         *)
(* comment on the same target.                                             *)
(***************************************************************************)
C20_Deterministic ==
    /\ \A k \in DOMAIN calls : AsIssued(calls[k]) = RequestFromAnswers(k)
    /\ analysisPrompt # << >> => analysisPrompt = PromptFromAnswers
    /\ commentBody # << >> => commentBody = BodyFromAnswers
    /\ \A i \in DOMAIN finished :
          \A j \in DOMAIN finished[i].comments :
              \A k \in CommentCalls :
                  finished[i].response = response =>
                      AsIssued(finished[i].comments[j]) = AsIssued(calls[k])

\* Both invocations read the same inference answer after two failed jobs
\* and created the same comment.
C20_Witness ==
    /\ Len(finished) = 1
    /\ finished[1].response = response
    /\ Len(FailedInListOrder) = 2
    /\ \E k \in InferenceCalls : calls[k].content = PromptFromAnswers
    /\ \E k \in CommentCalls :
          /\ calls[k].outcome = "ok"
          /\ finished[1].comments = << calls[k] >>

\* The number of section headers '\n## Job: ' in the text.
HeaderCount(t) ==
    Cardinality({ i \in 1..(Len(t) - Len(SectionMark) + 1) :
                      \A j \in 1..Len(SectionMark) :
                          t[i + j - 1] = SectionMark[j] })

(***************************************************************************)
(* C22: in the loop every failed job whose log request has settled, with a *)
(* log or with an error, has put one section header into the failure       *)
(* details, and no other header is there; when the loop is left the        *)
(* headers are as many as the failed jobs.                                 *)
(***************************************************************************)
C22_OneHeaderPerFailedJob ==
    DetailsWritten =>
        /\ HeaderCount(failureDetails) = idx - 1
        /\ idx - 1 = Cardinality(SettledLogCalls)
        /\ pc = "extracted" =>
              HeaderCount(failureDetails) = Len(FailedInListOrder)

\* Two failed jobs; the second fetch threw, the first did not: two headers.
C22_Witness ==
    /\ pc = "extracted"
    /\ Len(FailedInListOrder) = 2
    /\ calls[3].outcome = "ok"
    /\ calls[4].outcome = "throw"
    /\ HeaderCount(failureDetails) = 2

\* main has ended: END with exit status 0 or FAILED with exit status 1.
Ended ==
    \/ pc = "END" /\ exitStatus = << 0 >>
    \/ pc = "FAILED" /\ exitStatus = << 1 >>

\* No job is asked for its log twice, and the log requests are no more than
\* the failed jobs.
NoJobRepeated ==
    /\ \A k1, k2 \in LogCalls :
          calls[k1].job_id = calls[k2].job_id => k1 = k2
    /\ Cardinality(LogCalls) <= Len(FailedInListOrder)

(***************************************************************************)
(* C23: when every awaited request settles, every invocation ends, in END  *)
(* with exit status 0 or in FAILED with exit status 1; on the way the loop *)
(* asks for the log of a failed job at most once.                          *)
(***************************************************************************)
C23_Termination ==
    /\ <>Ended
    /\ []NoJobRepeated

\* An invocation that went through the loop for every failed job of the
\* longest list and ended.
C23_Witness ==
    /\ Ended
    /\ Len(FailedInListOrder) = MaxJobs
    /\ Cardinality(LogCalls) = MaxJobs

(***************************************************************************)
(* The issue-revision handler.                                             *)
(***************************************************************************)
\* The issue has a description and the description holds 'WIP'.
MarkedWIP ==
    /\ issueHandler.env.ISSUE_BODY # Undefined
    /\ issueHandler.env.ISSUE_BODY # << >>
    /\ Holds(issueHandler.env.ISSUE_BODY, << "W", "I", "P" >>)

IssueInferenceCalls ==
    { k \in DOMAIN issueHandler.calls :
          issueHandler.calls[k].api = "InvokeModel" }

IssueUpdateCalls ==
    { k \in DOMAIN issueHandler.calls :
          issueHandler.calls[k].api = "issues.update" }

(***************************************************************************)
(* C21: the handler sends a request, to the model or to GitHub, only for   *)
(* an issue whose description is present and holds 'WIP' in upper case;    *)
(* for every other issue it sends nothing and ends with exit status 0.     *)
(***************************************************************************)
C21_IssueTrigger ==
    /\ issueHandler.calls # << >> => MarkedWIP
    /\ ~MarkedWIP =>
          /\ issueHandler.calls = << >>
          /\ issueHandler.pc \in { "start", "END" }
          /\ issueHandler.pc = "END" => issueHandler.exitStatus = << 0 >>
    /\ (MarkedWIP /\ issueHandler.pc = "END") =>
          /\ IssueInferenceCalls # { }
          /\ IssueUpdateCalls # { }

\* The description 'wip: login fails' was skipped.
C21_Witness ==
    /\ issueHandler.env.ISSUE_BODY
         = << "w", "i", "p", ":", " ", "l", "o", "g", "i", "n", " ", "f", "a",
              "i", "l", "s" >>
    /\ issueHandler.pc = "END"
    /\ issueHandler.exitStatus = << 0 >>
    /\ issueHandler.calls = << >>

\* A prompt file is missing.
PromptFileMissing ==
    \/ issueHandler.env.systemPromptFile = Undefined
    \/ issueHandler.env.projectContextFile = Undefined

\* The answer of the model cannot be read: no JSON, or no content element.
IssueAnswerUnreadable ==
    /\ issueHandler.response # << >>
    /\ \/ ~issueHandler.response[1].json
       \/ Len(issueHandler.response[1].content) = 0

(***************************************************************************)
(* C24: the handler sends at most one issue update, as its last request    *)
(* and after the inference request has succeeded and its answer was read;  *)
(* the update carries the answer's text.  When a prompt file is missing,   *)
(* the inference request throws or its answer cannot be read, no update is *)
(* sent and the process has exited 1.                                      *)
(***************************************************************************)
C24_IssueWriteOrdering ==
    LET h == issueHandler
    IN  /\ Cardinality(IssueUpdateCalls) <= 1
        /\ \A k \in IssueUpdateCalls :
              /\ k = Len(h.calls)
              /\ \E i \in IssueInferenceCalls :
                    i < k /\ h.calls[i].outcome = "ok"
              /\ h.response # << >>
              /\ ~IssueAnswerUnreadable
              /\ h.calls[k].body
                   = WithoutSurroundingSpace(h.response[1].content[1].text)
        /\ (MarkedWIP /\ PromptFileMissing /\ h.pc # "start") =>
              /\ h.calls = << >>
              /\ h.exitStatus = << 1 >>
        /\ ( \/ \E i \in IssueInferenceCalls : h.calls[i].outcome = "throw"
             \/ IssueAnswerUnreadable ) =>
              /\ IssueUpdateCalls = { }
              /\ h.exitStatus = << 1 >>

\* The model answered with JSON that has no content: no update, exit 1.
C24_Witness ==
    /\ issueHandler.response
         = << [ json |-> TRUE, content |-> << >> ] >>
    /\ IssueUpdateCalls = { }
    /\ issueHandler.exitStatus = << 1 >>

(***************************************************************************)
(* The ImageUpload component.                                              *)
(***************************************************************************)
\* The executions of handleUpload that have not returned.
RunsInFlight ==
    { r \in DOMAIN imageUpload.runs : imageUpload.runs[r].pc # "returned" }

\* The requests for a description the execution r sent.
AnalysisCallsOf(r) ==
    { k \in DOMAIN imageUpload.calls :
          /\ imageUpload.calls[k].api = "fetch /api/analyze-image"
          /\ imageUpload.calls[k].run = r }

\* The request k was answered with 200 and a description.
Described(k) ==
    /\ imageUpload.calls[k].outcome = "ok"
    /\ imageUpload.calls[k].answer.status = 200
    /\ imageUpload.calls[k].answer.json
    /\ imageUpload.calls[k].answer.description # Undefined

(***************************************************************************)
(* C25: when the last handleUpload has returned after an upload and an     *)
(* analysis request that both succeeded, and no other file was picked      *)
(* since, the analysis endpoint was asked once for the uploaded key and    *)
(* the description on display is the one it returned.                      *)
(***************************************************************************)
C25_DescriptionKept ==
    \A r \in DOMAIN imageUpload.runs :
        \A k \in AnalysisCallsOf(r) :
            ( /\ r = Len(imageUpload.runs)
              /\ imageUpload.runs[r].pc = "returned"
              /\ imageUpload.uploadResult = "File uploaded successfully!"
              /\ Described(k) ) =>
                /\ AnalysisCallsOf(r) = { k }
                /\ imageUpload.calls[k].key = imageUpload.runs[r].uniqueFileName
                /\ imageUpload.imageDescription
                     = imageUpload.calls[k].answer.description

(***************************************************************************)
(* C26: when no handleUpload is in flight, uploading and analyzing are     *)
(* both false, whatever way the executions ended, and the input and, with  *)
(* a file, the button are enabled; an execution whose upload failed has    *)
(* sent no analysis request.                                               *)
(***************************************************************************)
C26_BusyFlagsReleased ==
    /\ RunsInFlight = { } =>
          /\ ~imageUpload.uploading
          /\ ~imageUpload.analyzing
          /\ InputEnabled
          /\ imageUpload.file # << >> => ButtonEnabled
    /\ \A k \in DOMAIN imageUpload.calls :
          ( /\ imageUpload.calls[k].api = "uploadData"
            /\ imageUpload.calls[k].outcome = "throw" ) =>
              AnalysisCallsOf(imageUpload.calls[k].run) = { }

\* One execution ended with a failed upload, the next with an analysis
\* request answered 500: the flags are down.
C26_Witness ==
    /\ Len(imageUpload.runs) = 2
    /\ RunsInFlight = { }
    /\ AnalysisCallsOf(1) = { }
    /\ \E k \in AnalysisCallsOf(2) : imageUpload.calls[k].answer.status = 500
    /\ ~imageUpload.uploading
    /\ ~imageUpload.analyzing

(***************************************************************************)
(* C27: at most one handleUpload is in flight; while one is, the input and *)
(* the button are disabled and the selected file is the file the           *)
(* execution started with.                                                 *)
(***************************************************************************)
C27_OneUploadInFlight ==
    /\ Cardinality(RunsInFlight) <= 1
    /\ \A r \in RunsInFlight :
          /\ imageUpload.uploading \/ imageUpload.analyzing
          /\ ~InputEnabled
          /\ imageUpload.file = imageUpload.runs[r].file

\* A second execution, for another file, awaits its analysis after the
\* first one returned.
C27_Witness ==
    /\ Len(imageUpload.runs) = 2
    /\ RunsInFlight = { 2 }
    /\ imageUpload.runs[2].pc = "analyzeImage"
    /\ imageUpload.runs[1].file # imageUpload.runs[2].file

(***************************************************************************)
(* The analyze-image route.                                                *)
(***************************************************************************)
\* The requests of the handler that ended in the given way.
RouteCallsWith(outcome) ==
    { k \in DOMAIN analyzeImageRoute.calls :
          analyzeImageRoute.calls[k].outcome = outcome }

\* The body of the request names an image.
HasImageKey ==
    /\ analyzeImageRoute.body.readable
    /\ ~analyzeImageRoute.body.null
    /\ analyzeImageRoute.body.imageKey \in RouteKeys

\* The statuses of the responses sent.
RouteStatuses ==
    { analyzeImageRoute.responses[i].status :
          i \in DOMAIN analyzeImageRoute.responses }

ChatOutstanding ==
    { k \in DOMAIN chatPage.calls : chatPage.calls[k].outcome = "pending" }

\* The requests of the page that have settled.
ChatSettled ==
    DOMAIN chatPage.calls \ ChatOutstanding

\* sendPrompt starts in this step.
ChatClicked ==
    chatPage'.clicks = chatPage.clicks + 1

\* loading is true exactly while a request is outstanding, at most one is,
\* no request carries a blank prompt, and after a request that failed (it
\* rejected or its answer could not be read) the response is the error text.
ChatLoadingTracksRequest ==
    /\ chatPage.loading <=> ChatOutstanding # { }
    /\ Cardinality(ChatOutstanding) <= 1
    /\ chatPage.loading => ~SendEnabled
    /\ \A k \in DOMAIN chatPage.calls :
          Trim(chatPage.calls[k].content) # << >>
    /\ \A k \in ChatSettled :
          ( /\ \A j \in ChatSettled : j <= k
            /\ ~chatPage.calls[k].parsed ) =>
              chatPage.response = FailedToGetResponse

\* A click with a blank prompt changes nothing but the count of clicks; any
\* other click raises loading and sends the prompt.
ChatClickSends ==
    ChatClicked =>
        IF Trim(chatPage.prompt) = << >>
        THEN /\ chatPage'.calls = chatPage.calls
             /\ chatPage'.response = chatPage.response
             /\ chatPage'.loading = chatPage.loading
        ELSE /\ chatPage'.loading
             /\ Len(chatPage'.calls) = Len(chatPage.calls) + 1
             /\ chatPage'.calls[Len(chatPage'.calls)].content
                  = chatPage.prompt
             /\ chatPage'.calls[Len(chatPage'.calls)].outcome = "pending"

(***************************************************************************)
(* C29: sendPrompt with a blank or white-space prompt sends nothing and    *)
(* leaves response and loading as they are; otherwise loading is true      *)
(* while the request is outstanding and false once it settled, at most one *)
(* request is outstanding, and a failed request leaves the error text as   *)
(* the response.                                                           *)
(***************************************************************************)
C29_SendPrompt ==
    /\ []ChatLoadingTracksRequest
    /\ [][ChatClickSends]_vars

\* A click with a prompt of white space sent nothing, the next click sent
\* 'hi' and the request rejected.
C29_Witness ==
    /\ chatPage.clicks = 2
    /\ Len(chatPage.calls) = 1
    /\ chatPage.calls[1].outcome = "throw"
    /\ chatPage.calls[1].content = PromptHi
    /\ chatPage.response = FailedToGetResponse
    /\ ~chatPage.loading
=============================================================================
